---- MODULE Spec2Model ----
(***************************************************************************)
(* A model of the performance-instrumentation library of AncestralClust    *)
(* (performance.h / performance.c): the process-wide context               *)
(* g_perf_context, the milestone table, the bounded log buffer and the     *)
(* recording calls, executed by host threads whose steps interleave at the *)
(* granularity of the shared-memory accesses the C code performs.          *)
(*                                                                         *)
(* Conventions                                                             *)
(*   - a C `double` is an integer number of thousandths (1.25 is 1250);    *)
(*   - a C string is a sequence of one-character strings; the null pointer *)
(*     is the value NULL;                                                  *)
(*   - a struct timespec is [tv_sec, tv_nsec].                             *)
(***************************************************************************)
EXTENDS Integers, Sequences, FiniteSets, TLC

(***************************************************************************)
(* Bounds of the model.                                                    *)
(***************************************************************************)
\* number of host threads
NThreads == 3
\* log_capacity of the model (PERF_MAX_LOG_ENTRIES is 10000 in performance.h)
MaxLogEntries == 3
\* calls each thread makes in the concurrent specifications
MaxCalls == 2
\* calls the single thread of the sequential specification makes
MaxCallsSeq == 3
\* half-second ticks of the monotonic clock
MaxTicks == 1
\* slots of thread_data in the model (PERF_MAX_THREADS is 256 in performance.h)
MaxThreadSlots == 2

(***************************************************************************)
(* Program constants.                                                      *)
(***************************************************************************)
PERF_MAX_LABEL_LEN == 64
PERF_MAX_LOG_ENTRIES == MaxLogEntries
PERF_MAX_THREADS == MaxThreadSlots
PERF_SAMPLING_INTERVAL == 100000
PERF_FORMAT_HUMAN == 0
PERF_FORMAT_CSV == 1
PERF_FORMAT_JSON == 2
PERF_FORMAT_TSV == 3
PERF_LOG_INFO == 2
PERF_LOG_DEBUG == 3
PERF_GRANULARITY_MEDIUM == 1
PERF_GRANULARITY_FINE == 2
PERF_MILESTONE_PROGRAM_START == 0
PERF_MILESTONE_CLUSTERING_START == 19
PERF_MILESTONE_CLUSTERING_ITERATION == 21
PERF_MILESTONE_USER_1 == 42
PERF_MILESTONE_COUNT == 47

Milestones == 0 .. (PERF_MILESTONE_COUNT - 1)

\* the null pointer, as a string argument
NULL == << "NULL" >>
EmptyStr == << >>

(***************************************************************************)
(* perf_milestone_t is an enum without negative enumerators: gcc and clang *)
(* (the compilers performance.h is written for: __builtin_expect,          *)
(* __attribute__((cleanup))) give it the type unsigned int, so             *)
(* `milestone >= PERF_MILESTONE_COUNT` is an unsigned comparison, in which *)
(* a negative value is a number above 2^31.                                *)
(***************************************************************************)
EnumGE_signed(m, c) == m >= c
EnumGE(m, c) == m < 0 \/ m >= c

(***************************************************************************)
(* The state.                                                              *)
(***************************************************************************)
VARIABLES
  config,             \* g_perf_context.config
  log_entries,        \* g_perf_context.log_entries[0 .. log_capacity-1]
  log_count,          \* g_perf_context.log_count (volatile size_t)
  log_capacity,       \* g_perf_context.log_capacity
  milestone_starts,   \* g_perf_context.milestone_starts[]
  milestone_active,   \* g_perf_context.milestone_active[]
  active_threads,     \* g_perf_context.active_threads
  max_threads_used,   \* g_perf_context.max_threads_used
  wild_write,         \* a store went outside the array it indexes
  clock,              \* the reading of CLOCK_MONOTONIC_RAW
  pc,                 \* per thread: its position in the call it executes
  frame,              \* per thread: arguments and locals of that call
  ncalls,             \* per thread: calls made so far
  written_by,         \* history: the call that last wrote each buffer slot
  end_found_active,   \* history: per kind, end() calls that found the flag set
  publish_attempts,   \* history: calls that reached the capacity test
  start_calls,        \* history: per kind, start() calls since the last end()
  host,               \* the host program: its threads and the arguments it passes
  allocation_counter, \* g_perf_context.allocation_counter
  bytes_allocated,    \* g_perf_context.bytes_allocated
  bytes_freed,        \* g_perf_context.bytes_freed
  program_start_time, \* g_perf_context.program_start_time
  thread_data,        \* g_perf_context.thread_data[0 .. PERF_MAX_THREADS-1]
  tls_thread_id,      \* per thread: its thread-local thread id
  registered,         \* history: per thread, active_threads before it registered
  handed_out,         \* history: the indices perf_register_thread has returned
  peak_active,        \* history: the largest active_threads since init or reset
  reported,           \* history: the allocation reports that passed the test of
                      \* perf_track_allocation since the counters were zeroed
  buffer_freed,       \* the block g_perf_context.log_entries points to was freed
  memory_fault        \* "none", or the first memory-unsafe access: a second
                      \* free of a block or an access to a freed block

vars == << config, log_entries, log_count, log_capacity, milestone_starts,
           milestone_active, active_threads, max_threads_used, wild_write, clock, pc, frame, ncalls,
           written_by, end_found_active, publish_attempts, start_calls, host,
           allocation_counter, bytes_allocated, bytes_freed, program_start_time,
           thread_data, tls_thread_id, registered, handed_out, peak_active,
           buffer_freed, memory_fault, reported >>

shared == << config, log_entries, log_count, log_capacity, milestone_starts,
             milestone_active, active_threads, max_threads_used, wild_write >>

history == << written_by, end_found_active, publish_attempts, start_calls >>

counters == << allocation_counter, bytes_allocated, bytes_freed, program_start_time >>

registry == << thread_data, tls_thread_id, registered, handed_out, peak_active >>

allocator == << buffer_freed, memory_fault >>

Threads == 1 .. NThreads

\* the calls that record, and the others
Recording == {"start", "end", "event", "iteration", "algorithm_step"}

Lifecycle == {"set_enabled", "reset", "register", "unregister"}

Setup == {"init", "init_with_config", "cleanup", "track_allocation"}

Output == {"flush", "export_csv", "set_output_format", "set_config"}

\* the milestone kinds the host uses: the history is kept for these
Tracked == host.milestones \cap Milestones

(***************************************************************************)
(* Time.                                                                   *)
(***************************************************************************)
ZeroTime == [tv_sec |-> 0, tv_nsec |-> 0]

\* the clock advances by half a second
TickTime(ts) ==
  IF ts.tv_nsec = 0
    THEN [tv_sec |-> ts.tv_sec, tv_nsec |-> 5 * 100000000]
    ELSE [tv_sec |-> ts.tv_sec + 1, tv_nsec |-> 0]

Ticks(ts) == 2 * ts.tv_sec + (IF ts.tv_nsec = 0 THEN 0 ELSE 1)

\* perf_timestamp_diff_ms: (sec * 1000.0 + nsec / 1000000.0) of end minus that
\* of start, in thousandths of a millisecond
ToMs(ts) == ts.tv_sec * 1000 * 1000 + ts.tv_nsec \div 1000
perf_timestamp_diff_ms_swapped(start, end) == ToMs(start) - ToMs(end)
perf_timestamp_diff_ms(start, end) == ToMs(end) - ToMs(start)

(***************************************************************************)
(* Strings.                                                                *)
(***************************************************************************)
Min(a, b) == IF a < b THEN a ELSE b
Max(a, b) == IF a > b THEN a ELSE b

Digit(d) == CASE d = 0 -> "0" [] d = 1 -> "1" [] d = 2 -> "2" [] d = 3 -> "3"
              [] d = 4 -> "4" [] d = 5 -> "5" [] d = 6 -> "6" [] d = 7 -> "7"
              [] d = 8 -> "8" [] OTHER -> "9"

RECURSIVE DecNat(_)
DecNat(n) == IF n < 10 THEN << Digit(n) >> ELSE DecNat(n \div 10) \o << Digit(n % 10) >>

\* printf("%d")
Dec(n) == IF n < 0 THEN << "-" >> \o DecNat(0 - n) ELSE DecNat(n)

\* printf("%.6f") of a number of thousandths
Fmt6(x) ==
  LET a == IF x < 0 THEN 0 - x ELSE x
      r == a % 1000
  IN  (IF x < 0 THEN << "-" >> ELSE << >>) \o DecNat(a \div 1000) \o << "." >>
        \o << Digit(r \div 100), Digit((r \div 10) % 10), Digit(r % 10) >>
        \o << "0", "0", "0" >>

\* what a destination of `size` bytes holds, as a C string, after
\* snprintf(dst, size, ...) produced the text s
Snprintf(size, s) == SubSeq(s, 1, Min(Len(s), size - 1))

\* what dst holds, as a C string, after strncpy(dst, src, n); dst[n] = '\0'
StrNCpy_all(src, n) == src
StrNCpy_whole(src, n) == SubSeq(src, 1, Min(Len(src), n + 1))
StrNCpy(src, n) == SubSeq(src, 1, Min(Len(src), n))

S_iteration_dash == << "i", "t", "e", "r", "a", "t", "i", "o", "n", "-" >>
S_iteration == << "i", "t", "e", "r", "a", "t", "i", "o", "n", "_" >>
S_convergence == << "c", "o", "n", "v", "e", "r", "g", "e", "n", "c", "e", "=" >>
S_metric == << "m", "e", "t", "r", "i", "c", "=" >>

\* a label that does not fit the label field of a record
LongLabel == [i \in 1 .. PERF_MAX_LABEL_LEN |-> "x"]

(***************************************************************************)
(* Records of the log buffer, frames of the calls.                         *)
(***************************************************************************)
\* a perf_metrics_t whose bytes are all zero
ZeroEntry ==
  [ milestone |-> 0, timestamp |-> ZeroTime, duration_ms |-> 0,
    thread_count |-> 0, iteration_number |-> 0, convergence_metric |-> 0,
    label |-> EmptyStr, context |-> EmptyStr ]

\* a perf_metrics_t holding what an earlier use of the memory left in it
JunkEntry ==
  [ milestone |-> PERF_MILESTONE_PROGRAM_START + 1, timestamp |-> ZeroTime,
    duration_ms |-> 0 - 1, thread_count |-> 0 - 1, iteration_number |-> 0 - 1,
    convergence_metric |-> 0 - 1, label |-> << "?" >>, context |-> << "?" >> ]

\* a perf_thread_data_t whose bytes are all zero
ZeroThread ==
  [ thread_id |-> 0, omp_thread_num |-> 0, start_time |-> ZeroTime,
    end_time |-> ZeroTime ]

\* what malloc's memory may hold: it is not initialised
Heap == {ZeroEntry, JunkEntry}

\* a perf_metrics_t left by an earlier use of the memory with no zero byte in
\* its label and context fields: as C strings they do not end inside the field
UnterminatedEntry ==
  [ JunkEntry EXCEPT !.label = [i \in 1 .. PERF_MAX_LABEL_LEN |-> "?"],
                     !.context = [i \in 1 .. PERF_MAX_LABEL_LEN |-> "?"] ]

\* history of the start() calls of one kind: how many since the last end(), the
\* clock at the first and at the latest of them, the label of the latest
NoStarts == [n |-> 0, first |-> ZeroTime, at |-> ZeroTime, label |-> EmptyStr]

NoCall == [thr |-> 0, n |-> 0, fn |-> "none", seen |-> [u \in Threads |-> 0]]

\* a perf_statistics_t whose bytes are all zero, and one holding what the
\* caller's memory held; a double that is a quotient is kept as the pair of
\* its dividend and divisor
ZeroStats ==
  [ sample_count |-> 0, min |-> 0, max |-> 0, mean |-> [sum |-> 0, n |-> 1] ]
JunkStats ==
  [ sample_count |-> 0 - 1, min |-> 0 - 1, max |-> 0 - 1,
    mean |-> [sum |-> 0 - 1, n |-> 1] ]

\* no report of an allocation yet
NoReports == [n |-> 0, bytes |-> 0]

IdleFrame ==
  [ fn |-> "none", milestone |-> 0, label |-> EmptyStr, context |-> EmptyStr,
    value |-> 0, iteration |-> 0, end_time |-> ZeroTime, duration_ms |-> 0,
    idx |-> 0, tmp |-> 0, ret |-> "none",
    n |-> 0, seen |-> [u \in Threads |-> 0], pre_count |-> 0, starts |-> NoStarts,
    prior |-> 0 - 1, config |-> [null |-> TRUE], out |-> << >>,
    stats |-> [null |-> TRUE], given |-> [null |-> TRUE] ]

\* calls of thread u that have returned
Completed(u) == ncalls[u] - (IF pc[u] = "idle" THEN 0 ELSE 1)

\* the frame of a call thread t enters now.  n, seen and pre_count are history,
\* kept by the calls that publish: the call's number, the calls of each thread
\* that returned before it began and (for a single-threaded host, where it is
\* the call's pre-state) log_count when it began.  prior is history kept by
\* perf_unregister_thread: active_threads before the thread registered, -1 if
\* it is not registered
Enter(t, fn) ==
  [ IdleFrame EXCEPT !.fn = fn, !.n = ncalls[t] + 1,
                     !.seen = IF fn \in Recording THEN [u \in Threads |-> Completed(u)]
                              ELSE IdleFrame.seen,
                     !.pre_count = IF host.threads = {t} /\ fn \in Recording
                                     THEN log_count ELSE 0 ]

\* a[i] = v in C: a store outside the array damages other memory
StoreAt(a, i, v) == IF i \in DOMAIN a THEN [a EXCEPT ![i] = v] ELSE a

(***************************************************************************)
(* Output.  A line written to a stream is a record of the stream, the      *)
(* format string that produced it and the texts of its arguments; the      *)
(* memory and cpu columns are left out.  The lines a call writes are kept  *)
(* in its frame, in the order of the writes.                               *)
(***************************************************************************)
milestone_names ==
  << "PROGRAM_START", "PROGRAM_END", "OPTION_PARSING", "INITIALIZATION", "CLEANUP",
     "FASTA_LOAD_START", "FASTA_LOAD_END", "FASTA_PARSE", "TAXONOMY_LOAD", "OUTPUT_WRITE",
     "DISTANCE_MATRIX_START", "DISTANCE_MATRIX_END", "DISTANCE_CALCULATION",
     "DISTANCE_PTHREAD_SECTION", "DISTANCE_AVERAGE_CALC",
     "TREE_CONSTRUCTION_START", "TREE_CONSTRUCTION_END", "TREE_NODE_CREATION",
     "TREE_BRANCH_LENGTH_CALC",
     "CLUSTERING_START", "CLUSTERING_END", "CLUSTERING_ITERATION", "CLUSTER_ASSIGNMENT",
     "CLUSTER_CENTROID_UPDATE", "CLUSTER_CONVERGENCE_CHECK", "CLUSTER_INITIALIZATION",
     "ALIGNMENT_START", "ALIGNMENT_END", "KALIGN_EXECUTION", "WFA2_EXECUTION",
     "NEEDLEMAN_WUNSCH", "SEQUENCE_ALIGNMENT", "MSA_CONSTRUCTION",
     "OMP_PARALLEL_START", "OMP_PARALLEL_END", "OMP_THREAD_SPAWN", "OMP_THREAD_JOIN",
     "OMP_BARRIER",
     "MEMORY_ALLOC", "MEMORY_FREE", "MEMORY_REALLOC", "LARGE_ALLOCATION",
     "USER_1", "USER_2", "USER_3", "USER_4", "USER_5" >>

\* `milestone >= 0 && milestone < PERF_MILESTONE_COUNT`, then the table; C
\* arrays start at 0
perf_milestone_name(milestone) ==
  IF milestone >= 0 /\ ~EnumGE(milestone, PERF_MILESTONE_COUNT)
    THEN milestone_names[milestone + 1]
    ELSE "UNKNOWN"

\* printf("%.3f") of a number of thousandths
Fmt3(x) ==
  LET a == IF x < 0 THEN 0 - x ELSE x
      r == a % 1000
  IN  (IF x < 0 THEN << "-" >> ELSE << >>) \o DecNat(a \div 1000) \o << "." >>
        \o << Digit(r \div 100), Digit((r \div 10) % 10), Digit(r % 10) >>

\* printf("%09ld") of a count of nanoseconds
RECURSIVE ZeroPad(_, _)
ZeroPad(s, width) == IF Len(s) >= width THEN s ELSE ZeroPad(<< "0" >> \o s, width)

\* printf("%ld.%09ld", tv_sec, tv_nsec)
FmtTime(ts) == Dec(ts.tv_sec) \o << "." >> \o ZeroPad(DecNat(ts.tv_nsec), 9)

\* the fprintf of the CSV case of perf_flush_logs
CsvLine(file, entry) ==
  [ file |-> file, format |-> "csv",
    timestamp |-> FmtTime(entry.timestamp),
    milestone |-> perf_milestone_name(entry.milestone),
    duration_ms |-> Fmt3(entry.duration_ms),
    thread_count |-> Dec(entry.thread_count),
    iteration |-> Dec(entry.iteration_number),
    convergence_metric |-> Fmt6(entry.convergence_metric),
    label |-> entry.label, context |-> entry.context ]

\* the fprintf of the HUMAN and default cases of perf_flush_logs
HumanLine(file, entry) ==
  [ file |-> file, format |-> "human",
    timestamp |-> FmtTime(entry.timestamp),
    milestone |-> perf_milestone_name(entry.milestone),
    duration_ms |-> Fmt3(entry.duration_ms),
    thread_count |-> Dec(entry.thread_count),
    label |-> entry.label ]

\* the header perf_export_csv writes
CsvHeader(file) ==
  [ file |-> file, format |-> "header",
    text |-> "timestamp,milestone,duration_ms,memory_rss_kb,memory_virt_kb,thread_count,iteration,convergence_metric,cpu_percent,label,context" ]

\* the `switch (g_perf_context.config.output_format)` of perf_flush_logs: what
\* one turn of the loop writes for one entry
EntryLines(cfg, entry) ==
  CASE cfg.output_format = PERF_FORMAT_CSV -> << CsvLine(cfg.output_file, entry) >>
    [] cfg.output_format = PERF_FORMAT_JSON -> << >>
    [] OTHER -> << HumanLine(cfg.output_file, entry) >>

\* `for (size_t i = 0; i < g_perf_context.log_count; i++)` from index i on
RECURSIVE FlushFrom(_, _, _, _)
FlushFrom(cfg, entries, count, i) ==
  IF i >= count \/ i \notin DOMAIN entries THEN << >>
  ELSE EntryLines(cfg, entries[i]) \o FlushFrom(cfg, entries, count, i + 1)

\* perf_flush_logs under configuration cfg: the lines it writes
FlushLines_last(cfg, entries, count) ==
  IF ~cfg.enabled \/ cfg.output_file = "NULL" THEN << >>
  ELSE FlushFrom(cfg, entries, count, count - 1)
FlushLines(cfg, entries, count) ==
  IF ~cfg.enabled \/ cfg.output_file = "NULL" THEN << >>
  ELSE FlushFrom(cfg, entries, count, 0)

\* thread t of the host is between two calls and goes on to call fn
CanCall(t, fn) ==
  /\ t \in host.threads
  /\ pc[t] = "idle"
  /\ fn \in host.may[t]
  /\ ncalls[t] < host.calls[t]

(***************************************************************************)
(* The initial state: perf_init() has returned 0.  perf_init_with_config   *)
(* zeroes the context, copies the configuration, sets log_capacity and     *)
(* allocates the buffer with malloc.                                       *)
(***************************************************************************)
\* the default_config of perf_init
DefaultConfig_coarse ==
  [ enabled |-> TRUE, granularity |-> PERF_GRANULARITY_MEDIUM - 1,
    log_level |-> PERF_LOG_INFO, output_format |-> PERF_FORMAT_HUMAN,
    output_file |-> "stderr",
    output_filename |-> << "p", "e", "r", "f", "o", "r", "m", "a", "n", "c", "e",
                           ".", "l", "o", "g" >>,
    flush_immediately |-> FALSE, track_memory |-> TRUE, track_cpu |-> TRUE,
    track_threads |-> TRUE, sampling_interval_us |-> PERF_SAMPLING_INTERVAL ]
DefaultConfig ==
  [ enabled |-> TRUE, granularity |-> PERF_GRANULARITY_MEDIUM,
    log_level |-> PERF_LOG_INFO, output_format |-> PERF_FORMAT_HUMAN,
    output_file |-> "stderr",
    output_filename |-> << "p", "e", "r", "f", "o", "r", "m", "a", "n", "c", "e",
                           ".", "l", "o", "g" >>,
    flush_immediately |-> FALSE, track_memory |-> TRUE, track_cpu |-> TRUE,
    track_threads |-> TRUE, sampling_interval_us |-> PERF_SAMPLING_INTERVAL ]

\* a perf_config_t whose bytes are all zero
ZeroConfig ==
  [ enabled |-> FALSE, granularity |-> 0, log_level |-> 0, output_format |-> 0,
    output_file |-> "NULL", output_filename |-> EmptyStr,
    flush_immediately |-> FALSE, track_memory |-> FALSE, track_cpu |-> FALSE,
    track_threads |-> FALSE, sampling_interval_us |-> 0 ]

\* the null pointer, as a `const perf_config_t *` argument
NullConfig == [null |-> TRUE]

\* a configuration a host passes to perf_init_with_config
CustomConfig ==
  [ enabled |-> TRUE, granularity |-> PERF_GRANULARITY_FINE,
    log_level |-> PERF_LOG_DEBUG, output_format |-> PERF_FORMAT_CSV,
    output_file |-> "stderr",
    output_filename |-> << "t", "e", "s", "t", "_", "o", "u", "t", "p", "u", "t",
                           ".", "l", "o", "g" >>,
    flush_immediately |-> TRUE, track_memory |-> FALSE, track_cpu |-> TRUE,
    track_threads |-> FALSE, sampling_interval_us |-> 50000 ]

InitContext ==
  /\ config = DefaultConfig
  /\ log_capacity = PERF_MAX_LOG_ENTRIES
  /\ log_entries = [i \in 0 .. (PERF_MAX_LOG_ENTRIES - 1) |-> host.heap]
  /\ log_count = 0
  /\ milestone_starts = [k \in Milestones |-> ZeroTime]
  /\ milestone_active = [k \in Milestones |-> 0]
  /\ active_threads = 0
  /\ max_threads_used = 0
  /\ allocation_counter = 0
  /\ bytes_allocated = 0
  /\ bytes_freed = 0
  /\ program_start_time = ZeroTime
  /\ wild_write = FALSE
  /\ clock = ZeroTime
  /\ pc = [t \in Threads |-> "idle"]
  /\ frame = [t \in Threads |-> IdleFrame]
  /\ ncalls = [t \in Threads |-> 0]
  /\ written_by = [i \in 0 .. (PERF_MAX_LOG_ENTRIES - 1) |-> NoCall]
  /\ end_found_active = [k \in Tracked |-> 0]
  /\ publish_attempts = 0
  /\ start_calls = [k \in Tracked |-> NoStarts]
  /\ thread_data = [i \in 0 .. (PERF_MAX_THREADS - 1) |-> ZeroThread]
  /\ tls_thread_id = [t \in Threads |-> 0 - 1]
  /\ registered = [t \in Threads |-> 0 - 1]
  /\ handed_out = << >>
  /\ peak_active = 0
  /\ buffer_freed = FALSE
  /\ memory_fault = "none"
  /\ reported = NoReports

\* the host of the sequential specification: one thread, arguments that reach
\* every guard of the recording calls
HostSeq(heap) ==
  [ heap |-> heap, threads |-> {1},
    may |-> [t \in Threads |-> Recording \cup Lifecycle],
    calls |-> [t \in Threads |-> MaxCallsSeq],
    ticks |-> MaxTicks,
    milestones |-> {-1, PERF_MILESTONE_PROGRAM_START, PERF_MILESTONE_COUNT},
    labels |-> {NULL, << "a" >>}, contexts |-> {NULL}, values |-> {1250},
    iterations |-> {3}, metrics |-> {420}, names |-> {NULL, << "k" >>} ]

\* the host of the concurrent specification: two producer threads, each with
\* its own kind of record (the discipline of spec section 4.6: a milestone kind
\* is not raced between threads)
HostConc(heap) ==
  [ heap |-> heap, threads |-> {1, 2},
    may |-> [t \in Threads |->
               IF t = 1 THEN {"start", "end"}
               ELSE {"event", "iteration", "algorithm_step"}],
    calls |-> [t \in Threads |-> MaxCalls],
    ticks |-> 0,
    milestones |-> {PERF_MILESTONE_CLUSTERING_START},
    labels |-> {EmptyStr}, contexts |-> {EmptyStr}, values |-> {1250},
    iterations |-> {3}, metrics |-> {420}, names |-> {<< "k" >>} ]

\* the host of the specification of racing producers: every thread logs
\* events or iterations, the first one more of them than the others
HostRace(heap) ==
  [ heap |-> heap, threads |-> Threads,
    may |-> [t \in Threads |-> IF t = 2 THEN {"iteration"} ELSE {"event"}],
    calls |-> [t \in Threads |->
                 CASE t = 1 -> MaxCalls + 1 [] t = 2 -> MaxCalls - 1 [] OTHER -> MaxCalls],
    ticks |-> 0,
    milestones |-> {PERF_MILESTONE_CLUSTERING_START},
    labels |-> {EmptyStr}, contexts |-> {EmptyStr}, values |-> {1250},
    iterations |-> {3}, metrics |-> {420}, names |-> {<< "k" >>} ]

\* the host of the specification that fills the buffer: one thread logging
\* events, one more than the buffer holds, with labels that fit the label
\* field and labels that do not
HostFill(heap) ==
  [ heap |-> heap, threads |-> {1},
    may |-> [t \in Threads |-> {"event"}],
    calls |-> [t \in Threads |-> PERF_MAX_LOG_ENTRIES + 1],
    ticks |-> MaxTicks,
    milestones |-> {PERF_MILESTONE_CLUSTERING_START},
    labels |-> {<< "d" >>, LongLabel}, contexts |-> {NULL, << "c" >>},
    values |-> {1250},
    iterations |-> {3}, metrics |-> {420}, names |-> {<< "k" >>} ]

\* the host of the specification of the recorded values: one thread and every
\* recording call, on the kind perf_log_iteration records under, with values
\* of either sign
HostArgs(heap) ==
  [ heap |-> heap, threads |-> {1},
    may |-> [t \in Threads |-> Recording],
    calls |-> [t \in Threads |-> MaxCallsSeq],
    ticks |-> MaxTicks,
    milestones |-> {PERF_MILESTONE_CLUSTERING_ITERATION},
    labels |-> {<< "a" >>}, contexts |-> {NULL}, values |-> {1250, 0 - 500},
    iterations |-> {3, 0 - 12}, metrics |-> {0 - 80}, names |-> {<< "k" >>} ]

Init == host \in {HostSeq(e) : e \in Heap} /\ InitContext

\* the host of the specification of worker threads: a thread that registers,
\* times milestones and unregisters, again and again, more often than
\* thread_data has slots, beside a thread that registered before it began
HostCycle(heap) ==
  [ heap |-> heap, threads |-> {1, 2},
    may |-> [t \in Threads |->
               IF t = 1 THEN {"register", "unregister", "start", "end"}
               ELSE {"register"}],
    calls |-> [t \in Threads |-> IF t = 1 THEN 2 * (PERF_MAX_THREADS + 1) ELSE 1],
    ticks |-> MaxTicks,
    milestones |-> {PERF_MILESTONE_CLUSTERING_START},
    labels |-> {EmptyStr}, contexts |-> {EmptyStr}, values |-> {1250},
    iterations |-> {3}, metrics |-> {420}, names |-> {<< "k" >>} ]

InitCycle == host \in {HostCycle(e) : e \in Heap} /\ InitContext

\* the host of the specification of concurrent registration: every thread
\* registers and unregisters, one thread more than thread_data has slots
HostReg(heap) ==
  [ heap |-> heap, threads |-> Threads,
    may |-> [t \in Threads |-> {"register", "unregister"}],
    calls |-> [t \in Threads |-> MaxCalls],
    ticks |-> 0,
    milestones |-> {PERF_MILESTONE_CLUSTERING_START},
    labels |-> {EmptyStr}, contexts |-> {EmptyStr}, values |-> {1250},
    iterations |-> {3}, metrics |-> {420}, names |-> {<< "k" >>} ]

InitReg == host \in {HostReg(e) : e \in Heap} /\ InitContext

\* the host of the specification of the lifecycle: one thread that records,
\* registers, tracks allocations, resets, cleans up and initialises again
HostLife(heap) ==
  [ heap |-> heap, threads |-> {1},
    may |-> [t \in Threads |->
               Setup \cup {"reset", "register", "start", "event"}],
    calls |-> [t \in Threads |-> MaxCallsSeq + 2],
    ticks |-> MaxTicks,
    milestones |-> {PERF_MILESTONE_CLUSTERING_START},
    labels |-> {<< "a" >>}, contexts |-> {EmptyStr}, values |-> {1250},
    iterations |-> {3}, metrics |-> {420}, names |-> {<< "k" >>},
    configs |-> {NullConfig, CustomConfig}, ptrs |-> {<< "p" >>}, sizes |-> {1024},
    malloc |-> {TRUE} ]

InitLife == host \in {HostLife(e) : e \in Heap} /\ InitContext

\* the host of the specification of a failed initialisation: one thread that
\* initialises again, malloc giving a buffer or not, and records
HostNoMem(heap) ==
  [ heap |-> heap, threads |-> {1},
    may |-> [t \in Threads |-> {"init", "start", "end", "event", "iteration"}],
    calls |-> [t \in Threads |-> MaxCallsSeq],
    ticks |-> 0,
    milestones |-> {PERF_MILESTONE_CLUSTERING_START},
    labels |-> {<< "a" >>}, contexts |-> {EmptyStr}, values |-> {1250},
    iterations |-> {3}, metrics |-> {420}, names |-> {<< "k" >>},
    malloc |-> {TRUE, FALSE} ]

InitNoMem == host \in {HostNoMem(e) : e \in Heap} /\ InitContext

\* the host of the output specification: one thread that configures, records,
\* flushes, exports and cleans up
HostOut(heap) ==
  [ heap |-> heap, threads |-> {1},
    may |-> [t \in Threads |-> Output \cup {"set_enabled", "cleanup", "start", "end",
                                            "event", "iteration"}],
    calls |-> [t \in Threads |-> MaxCallsSeq + 1],
    ticks |-> 0,
    milestones |-> {PERF_MILESTONE_CLUSTERING_START},
    labels |-> {<< "d" >>}, contexts |-> {NULL}, values |-> {1250, 2500},
    iterations |-> {3}, metrics |-> {420}, names |-> {<< "k" >>},
    configs |-> {CustomConfig},
    formats |-> {PERF_FORMAT_HUMAN, PERF_FORMAT_CSV, PERF_FORMAT_JSON, PERF_FORMAT_TSV},
    paths |-> {NULL, << "o" >>}, fopen |-> {TRUE, FALSE} ]

InitOut == host \in {HostOut(e) : e \in Heap} /\ InitContext

\* a label of n characters
LabelOf(n) == [i \in 1 .. n |-> Digit(i % 10)]

\* the host of the specification of the labels: one thread that starts and
\* ends a milestone and logs events under labels shorter than the label
\* field, of its length less one, of its length and longer, and under NULL
HostLabel(heap) ==
  [ heap |-> heap, threads |-> {1},
    may |-> [t \in Threads |-> {"start", "end", "event"}],
    calls |-> [t \in Threads |-> MaxCallsSeq],
    ticks |-> 0,
    milestones |-> {PERF_MILESTONE_CLUSTERING_START},
    labels |-> {NULL, LabelOf(1), LabelOf(PERF_MAX_LABEL_LEN - 1),
                LabelOf(PERF_MAX_LABEL_LEN), LabelOf(PERF_MAX_LABEL_LEN + 1)},
    contexts |-> {NULL}, values |-> {1250},
    iterations |-> {3}, metrics |-> {420}, names |-> {<< "k" >>} ]

InitLabel == host \in {HostLabel(e) : e \in Heap \cup {UnterminatedEntry}} /\ InitContext

\* the host of the lifecycle race: every thread runs perf_init, then
\* perf_cleanup, with no synchronisation between the threads
HostInit(heap) ==
  [ heap |-> heap, threads |-> Threads,
    may |-> [t \in Threads |-> {"init", "cleanup"}],
    calls |-> [t \in Threads |-> MaxCalls],
    ticks |-> 0,
    milestones |-> {PERF_MILESTONE_CLUSTERING_START},
    labels |-> {<< "a" >>}, contexts |-> {NULL}, values |-> {1250},
    iterations |-> {3}, metrics |-> {420}, names |-> {<< "k" >>} ]

InitInit == host \in {HostInit(e) : e \in Heap} /\ InitContext

\* the host of the test fixtures: setUp is perf_cleanup then perf_init, a
\* test body records, tearDown is perf_cleanup; the first setUp finds the
\* context as the program loader left it
HostFixture(heap) ==
  [ heap |-> heap, threads |-> {1},
    may |-> [t \in Threads |-> {"cleanup", "init", "start", "event", "iteration"}],
    calls |-> [t \in Threads |-> 2 * MaxCallsSeq + 1],
    ticks |-> MaxTicks,
    milestones |-> {PERF_MILESTONE_CLUSTERING_START},
    labels |-> {<< "a" >>}, contexts |-> {NULL}, values |-> {1250},
    iterations |-> {3}, metrics |-> {420}, names |-> {<< "k" >>},
    malloc |-> {TRUE} ]

\* `static perf_context_t g_perf_context = {0};` before any call
StaticContext ==
  /\ config = ZeroConfig
  /\ log_capacity = 0
  /\ log_entries = << >>
  /\ log_count = 0
  /\ milestone_starts = [k \in Milestones |-> ZeroTime]
  /\ milestone_active = [k \in Milestones |-> 0]
  /\ active_threads = 0
  /\ max_threads_used = 0
  /\ allocation_counter = 0
  /\ bytes_allocated = 0
  /\ bytes_freed = 0
  /\ program_start_time = ZeroTime
  /\ wild_write = FALSE
  /\ clock = ZeroTime
  /\ pc = [t \in Threads |-> "idle"]
  /\ frame = [t \in Threads |-> IdleFrame]
  /\ ncalls = [t \in Threads |-> 0]
  /\ written_by = [i \in 0 .. (PERF_MAX_LOG_ENTRIES - 1) |-> NoCall]
  /\ end_found_active = [k \in Tracked |-> 0]
  /\ publish_attempts = 0
  /\ start_calls = [k \in Tracked |-> NoStarts]
  /\ thread_data = [i \in 0 .. (PERF_MAX_THREADS - 1) |-> ZeroThread]
  /\ tls_thread_id = [t \in Threads |-> 0 - 1]
  /\ registered = [t \in Threads |-> 0 - 1]
  /\ handed_out = << >>
  /\ peak_active = 0
  /\ buffer_freed = FALSE
  /\ memory_fault = "none"
  /\ reported = NoReports

InitFixture == host \in {HostFixture(e) : e \in Heap} /\ StaticContext

\* the host of the allocation counters: two threads that report allocations
\* and deallocations, with null pointers among them, while the first may
\* also switch the library off
HostTrack(heap) ==
  [ heap |-> heap, threads |-> {1, 2},
    may |-> [t \in Threads |->
               IF t = 1 THEN {"track_allocation", "track_deallocation", "set_enabled"}
               ELSE {"track_allocation", "track_deallocation"}],
    calls |-> [t \in Threads |-> MaxCalls],
    ticks |-> 0,
    milestones |-> {PERF_MILESTONE_CLUSTERING_START},
    labels |-> {EmptyStr}, contexts |-> {EmptyStr}, values |-> {1250},
    iterations |-> {3}, metrics |-> {420}, names |-> {<< "k" >>},
    ptrs |-> {NULL, << "p" >>}, sizes |-> {1024, 4096} ]

InitTrack == host \in {HostTrack(e) : e \in Heap} /\ InitContext

\* the host of the statistics: one thread that records events of two values,
\* iterations and milestones and asks for the statistics of kinds with and
\* without records and of a kind outside the enumeration
HostStats(heap) ==
  [ heap |-> heap, threads |-> {1},
    may |-> [t \in Threads |-> {"start", "end", "event", "iteration", "statistics"}],
    calls |-> [t \in Threads |-> MaxCallsSeq + 1],
    ticks |-> 0,
    milestones |-> {PERF_MILESTONE_CLUSTERING_START},
    labels |-> {<< "a" >>}, contexts |-> {NULL}, values |-> {700, 2500},
    iterations |-> {3}, metrics |-> {420}, names |-> {<< "k" >>},
    queries |-> {PERF_MILESTONE_USER_1, PERF_MILESTONE_CLUSTERING_ITERATION,
                 PERF_MILESTONE_CLUSTERING_START, PERF_MILESTONE_COUNT},
    stats |-> {ZeroStats, JunkStats}, malloc |-> {TRUE, FALSE} ]

\* the host of repeated flushes: one thread that switches flush_immediately
\* on, changes the format, records milestones and events and flushes
HostFlush(heap) ==
  [ heap |-> heap, threads |-> {1},
    may |-> [t \in Threads |-> {"set_config", "set_output_format", "flush",
                                "start", "end", "event"}],
    calls |-> [t \in Threads |-> 2 * MaxCallsSeq],
    ticks |-> 0,
    milestones |-> {PERF_MILESTONE_CLUSTERING_START},
    labels |-> {<< "d" >>}, contexts |-> {NULL}, values |-> {1250},
    iterations |-> {3}, metrics |-> {420}, names |-> {<< "k" >>},
    configs |-> {CustomConfig},
    formats |-> {PERF_FORMAT_HUMAN, PERF_FORMAT_JSON} ]

InitFlush == host \in {HostFlush(e) : e \in Heap} /\ InitContext

InitStats == host \in {HostStats(e) : e \in Heap} /\ InitContext

InitArgs == host \in {HostArgs(e) : e \in Heap} /\ InitContext

InitFill == host \in {HostFill(e) : e \in Heap} /\ InitContext

InitConc == host \in {HostConc(e) : e \in Heap} /\ InitContext

InitRace == host \in {HostRace(e) : e \in Heap} /\ InitContext

(***************************************************************************)
(* Steps common to the calls.                                              *)
(***************************************************************************)
\* the call of thread t ends with frame f; it has yet to return
Finish(t, f, ret) ==
  /\ pc' = [pc EXCEPT ![t] = "ret"]
  /\ frame' = [frame EXCEPT ![t] = [f EXCEPT !.ret = ret]]
  /\ ncalls' = [ncalls EXCEPT ![t] = f.n]

\* the call of thread t goes on at `at` with frame f
Goto(t, f, at) ==
  /\ pc' = [pc EXCEPT ![t] = at]
  /\ frame' = [frame EXCEPT ![t] = f]
  /\ ncalls' = [ncalls EXCEPT ![t] = f.n]

\* `if (g_perf_context.log_count < g_perf_context.log_capacity)`
HasRoom_le == log_count <= log_capacity
HasRoom == log_count < log_capacity

\* the capacity test of a publishing call: on to the slot, or past the block
CapacityTest(t, f, full_at) ==
  /\ publish_attempts' = publish_attempts + 1
  /\ IF HasRoom
       THEN Goto(t, f, "slot")
       ELSE IF full_at = "ret" THEN Finish(t, f, "full")
            ELSE Goto(t, [f EXCEPT !.ret = "full"], full_at)

\* `perf_metrics_t *entry = &g_perf_context.log_entries[g_perf_context.log_count];`
Slot(t) ==
  /\ pc[t] = "slot"
  /\ pc' = [pc EXCEPT ![t] = "fill"]
  /\ frame' = [frame EXCEPT ![t].idx = log_count]
  /\ UNCHANGED << shared, clock, ncalls, history, host, registry, counters, allocator, reported >>

\* the `label` that `if (label) { strncpy(entry->label, label, ...` reads in
\* perf_end_milestone_labeled: its own parameter
EndLabel_start(f) == f.starts.label
EndLabel(f) == f.label

\* the fields each call writes through `entry`; the others keep what the slot held
EntryOf(f, old) ==
  CASE f.fn = "end" ->
         [ old EXCEPT !.milestone = f.milestone, !.timestamp = f.end_time,
                      !.duration_ms = f.duration_ms,
                      !.thread_count = active_threads, !.iteration_number = 0,
                      !.convergence_metric = 0,
                      !.label = IF EndLabel(f) = NULL THEN EmptyStr
                                ELSE StrNCpy(EndLabel(f), PERF_MAX_LABEL_LEN - 1) ]
    [] f.fn = "iteration" ->
         [ old EXCEPT !.milestone = PERF_MILESTONE_CLUSTERING_ITERATION,
                      !.timestamp = clock, !.duration_ms = 0,
                      !.thread_count = active_threads,
                      !.iteration_number = f.iteration,
                      !.convergence_metric = f.value,
                      !.label = Snprintf(PERF_MAX_LABEL_LEN, S_iteration \o Dec(f.iteration)),
                      !.context = Snprintf(PERF_MAX_LABEL_LEN, S_convergence \o Fmt6(f.value)) ]
    [] OTHER ->
         [ old EXCEPT !.milestone = PERF_MILESTONE_USER_1, !.timestamp = clock,
                      !.duration_ms = f.value, !.thread_count = active_threads,
                      !.label = StrNCpy(f.label, PERF_MAX_LABEL_LEN - 1),
                      !.context = IF f.context = NULL THEN EmptyStr
                                  ELSE StrNCpy(f.context, PERF_MAX_LABEL_LEN - 1) ]

\* the stores through `entry`; idx is not read again
Fill(t) ==
  /\ pc[t] = "fill"
  /\ LET f == frame[t]
         i == f.idx
     IN  /\ log_entries' = IF i \in DOMAIN log_entries
                             THEN [log_entries EXCEPT ![i] = EntryOf(f, log_entries[i])]
                             ELSE log_entries
         /\ wild_write' = (wild_write \/ i \notin DOMAIN log_entries)
         /\ written_by' = StoreAt(written_by, i,
                                  [thr |-> t, n |-> f.n, fn |-> f.fn, seen |-> f.seen])
         /\ frame' = [frame EXCEPT ![t] = [f EXCEPT !.idx = 0, !.seen = IdleFrame.seen]]
  /\ memory_fault' = IF memory_fault = "none" /\ buffer_freed
                        THEN "use_after_free" ELSE memory_fault
  /\ pc' = [pc EXCEPT ![t] = "load"]
  /\ UNCHANGED << config, log_count, log_capacity, milestone_starts, milestone_active,
                  active_threads, max_threads_used, clock, ncalls, end_found_active,
                  publish_attempts, start_calls, host, registry, counters,
                  buffer_freed, reported >>

\* `g_perf_context.log_count++;` on a volatile size_t: a load ...
Load(t) ==
  /\ pc[t] = "load"
  /\ pc' = [pc EXCEPT ![t] = "store"]
  /\ frame' = [frame EXCEPT ![t].tmp = log_count]
  /\ UNCHANGED << shared, clock, ncalls, history, host, registry, counters, allocator, reported >>

\* `if (g_perf_context.config.flush_immediately) perf_flush_logs();` after the
\* log_count++ of the call fn: only perf_end_milestone_labeled has it
FlushAfter(fn, count) ==
  IF fn = "end" /\ config.flush_immediately
    THEN FlushLines(config, log_entries, count)
    ELSE << >>

\* ... and a store; tmp is not read again.  end() goes on to its flush
Store(t) ==
  /\ pc[t] = "store"
  /\ log_count' = frame[t].tmp + 1
  /\ IF frame[t].fn = "end"
       THEN pc' = [pc EXCEPT ![t] = "clear"]
       ELSE pc' = [pc EXCEPT ![t] = "ret"]
  /\ frame' = [frame EXCEPT ![t] =
                 [@ EXCEPT !.ret = "published", !.tmp = 0,
                           !.out = FlushAfter(frame[t].fn, frame[t].tmp + 1)]]
  /\ UNCHANGED << config, log_entries, log_capacity, milestone_starts, milestone_active,
                  active_threads, max_threads_used, wild_write, clock, ncalls, history, host, registry, counters, allocator, reported >>

\* the call returns to the host
Return(t) ==
  /\ pc[t] = "ret"
  /\ pc' = [pc EXCEPT ![t] = "idle"]
  /\ frame' = [frame EXCEPT ![t] = IdleFrame]
  /\ handed_out' = IF frame[t].fn = "register" /\ frame[t].ret = "registered"
                     THEN Append(handed_out, frame[t].idx) ELSE handed_out
  /\ UNCHANGED << shared, clock, ncalls, history, host, thread_data, tls_thread_id,
                  registered, peak_active, counters, allocator, reported >>

(***************************************************************************)
(* Milestone tracking.                                                     *)
(***************************************************************************)
\* `!g_perf_context.config.enabled`, the first test of every recording call
IsEnabled_always == TRUE
IsEnabled == config.enabled

\* g_perf_context.milestone_active[milestone]
ActiveFlag_one(milestone) == 1
ActiveFlag(milestone) ==
  IF milestone \in Milestones THEN milestone_active[milestone] ELSE 1

\* g_perf_context.milestone_starts[milestone]
StartOf(milestone) ==
  IF milestone \in Milestones THEN milestone_starts[milestone] ELSE ZeroTime

\* the timestamp start() stores: perf_get_timestamp(&milestone_starts[milestone])
NewStart_keep(milestone) == IF ActiveFlag(milestone) # 0 THEN StartOf(milestone) ELSE clock
NewStart(milestone) == clock

perf_start_milestone_labeled(t, milestone, label) ==
  /\ CanCall(t, "start")
  /\ LET f == [Enter(t, "start") EXCEPT !.milestone = milestone, !.label = label]
     IN  IF ~IsEnabled \/ EnumGE(milestone, PERF_MILESTONE_COUNT)
           THEN /\ Finish(t, f, "gated")
                /\ UNCHANGED << milestone_starts, milestone_active, wild_write, start_calls >>
           ELSE /\ milestone_starts' = StoreAt(milestone_starts, milestone, NewStart(milestone))
                /\ milestone_active' = StoreAt(milestone_active, milestone, 1)
                /\ wild_write' = (wild_write \/ milestone \notin Milestones)
                /\ start_calls' =
                     IF milestone \in Tracked
                       THEN [start_calls EXCEPT ![milestone] =
                               [n |-> @.n + 1,
                                first |-> IF @.n = 0 THEN clock ELSE @.first,
                                at |-> clock, label |-> label]]
                       ELSE start_calls
                /\ Finish(t, f, "started")
  /\ UNCHANGED << config, log_entries, log_count, log_capacity, active_threads,
                  max_threads_used, clock, written_by, end_found_active,
                  publish_attempts, host, registry, counters, allocator, reported >>

perf_start_milestone(t, milestone) == perf_start_milestone_labeled(t, milestone, EmptyStr)

perf_end_milestone_labeled(t, milestone, label) ==
  /\ CanCall(t, "end")
  /\ LET f == [Enter(t, "end") EXCEPT
                 !.milestone = milestone, !.label = label,
                 !.starts = IF milestone \in Tracked THEN start_calls[milestone]
                            ELSE NoStarts]
     IN  IF ~IsEnabled \/ EnumGE(milestone, PERF_MILESTONE_COUNT)
           THEN /\ Finish(t, f, "gated")
                /\ UNCHANGED << end_found_active, publish_attempts >>
           ELSE IF ActiveFlag(milestone) = 0
             THEN /\ Finish(t, f, "inactive")
                  /\ UNCHANGED << end_found_active, publish_attempts >>
             ELSE /\ end_found_active' =
                       IF milestone \in Tracked
                         THEN [end_found_active EXCEPT ![milestone] = @ + 1]
                         ELSE end_found_active
                  /\ CapacityTest(t,
                       [f EXCEPT !.end_time = clock,
                                 !.duration_ms = perf_timestamp_diff_ms(StartOf(milestone), clock)],
                       "clear")
  /\ UNCHANGED << shared, clock, written_by, start_calls, host, registry, counters, allocator, reported >>

perf_end_milestone(t, milestone) == perf_end_milestone_labeled(t, milestone, EmptyStr)

\* `g_perf_context.milestone_active[milestone] = 0;`, the last statement of end()
Clear(t) ==
  /\ pc[t] = "clear"
  /\ LET m == frame[t].milestone
     IN  /\ milestone_active' = StoreAt(milestone_active, m, 0)
         /\ wild_write' = (wild_write \/ m \notin Milestones)
         /\ start_calls' = StoreAt(start_calls, m, NoStarts)
  /\ pc' = [pc EXCEPT ![t] = "ret"]
  /\ UNCHANGED << config, log_entries, log_count, log_capacity, milestone_starts,
                  active_threads, max_threads_used, clock, frame, ncalls, written_by,
                  end_found_active, publish_attempts, host, registry, counters, allocator, reported >>

(***************************************************************************)
(* Custom event logging.                                                   *)
(***************************************************************************)
\* perf_log_event_with_context from its first statement to the capacity test
EventBody(t, f) ==
  IF ~IsEnabled \/ f.label = NULL
    THEN Finish(t, f, "gated") /\ UNCHANGED publish_attempts
    ELSE CapacityTest(t, f, "ret")

perf_log_event_with_context(t, label, value, context) ==
  /\ CanCall(t, "event")
  /\ EventBody(t, [Enter(t, "event") EXCEPT !.label = label, !.value = value,
                                           !.context = context])
  /\ UNCHANGED << shared, clock, written_by, end_found_active, start_calls, host, registry, counters, allocator, reported >>

perf_log_event(t, label, value) == perf_log_event_with_context(t, label, value, EmptyStr)

perf_log_iteration(t, iteration, convergence_metric) ==
  /\ CanCall(t, "iteration")
  /\ LET f == [Enter(t, "iteration") EXCEPT !.iteration = iteration,
                                            !.value = convergence_metric]
     IN  IF ~IsEnabled
           THEN Finish(t, f, "gated") /\ UNCHANGED publish_attempts
           ELSE CapacityTest(t, f, "ret")
  /\ UNCHANGED << shared, clock, written_by, end_found_active, start_calls, host, registry, counters, allocator, reported >>

\* perf_log_algorithm_step composes label and context, then calls
\* perf_log_event_with_context, which tests config.enabled again
perf_log_algorithm_step(t, algorithm, step, metric) ==
  /\ CanCall(t, "algorithm_step")
  /\ LET f == [Enter(t, "algorithm_step") EXCEPT !.value = metric]
     IN  IF ~IsEnabled \/ algorithm = NULL \/ step = NULL
           THEN Finish(t, f, "gated")
           ELSE Goto(t, [f EXCEPT
                  !.label = Snprintf(PERF_MAX_LABEL_LEN, algorithm \o << "_" >> \o step),
                  !.context = Snprintf(PERF_MAX_LABEL_LEN, S_metric \o Fmt6(metric))],
                  "event")
  /\ UNCHANGED << shared, clock, history, host, registry, counters, allocator, reported >>

\* the call of perf_log_event_with_context inside perf_log_algorithm_step
EventEnter(t) ==
  /\ pc[t] = "event"
  /\ EventBody(t, frame[t])
  /\ UNCHANGED << shared, clock, written_by, end_found_active, start_calls, host, registry, counters, allocator, reported >>

(***************************************************************************)
(* Utilities and statistics.                                               *)
(***************************************************************************)
\* the buffer indices perf_get_milestone_statistics collects its samples from
SamplesOf(milestone) ==
  { i \in 0 .. (log_count - 1) :
      i \in DOMAIN log_entries /\ log_entries[i].milestone = milestone }

\* the value perf_get_milestone_statistics(milestone, &stats) returns
perf_get_milestone_statistics(milestone) ==
  IF EnumGE(milestone, PERF_MILESTONE_COUNT) THEN -1
  ELSE IF SamplesOf(milestone) = {} THEN -1
  ELSE 0

\* the first loop of perf_get_milestone_statistics: samples[] from index i on
RECURSIVE CollectFrom(_, _)
CollectFrom(milestone, i) ==
  IF i >= log_count \/ i \notin DOMAIN log_entries THEN << >>
  ELSE (IF log_entries[i].milestone = milestone
          THEN << log_entries[i].duration_ms >> ELSE << >>)
       \o CollectFrom(milestone, i + 1)

\* its second loop over samples[i ..], from the statistics st
RECURSIVE Accumulate(_, _, _)
Accumulate(samples, i, st) ==
  IF i > Len(samples) THEN st
  ELSE Accumulate(samples, i + 1,
         [st EXCEPT !.min = IF samples[i] < st.min THEN samples[i] ELSE st.min,
                    !.max = IF samples[i] > st.max THEN samples[i] ELSE st.max,
                    !.mean = [sum |-> st.mean.sum + samples[i], n |-> st.mean.n]])

\* `if (!stats || milestone >= PERF_MILESTONE_COUNT) return -1;` comes before
\* the memset: what *stats holds when the call returns, given what it held
StatsAfter_zeroed(milestone, given) ==
  LET samples == CollectFrom(milestone, 0)
      n == Len(samples)
  IN  IF EnumGE(milestone, PERF_MILESTONE_COUNT) THEN ZeroStats
      ELSE IF n = 0 THEN ZeroStats
      ELSE LET st == Accumulate(samples, 1,
                       [ sample_count |-> n, min |-> samples[1], max |-> samples[1],
                         mean |-> [sum |-> 0, n |-> 1] ])
           IN  [st EXCEPT !.mean = [sum |-> st.mean.sum, n |-> n]]
StatsAfter(milestone, given) ==
  LET samples == CollectFrom(milestone, 0)
      n == Len(samples)
  IN  IF EnumGE(milestone, PERF_MILESTONE_COUNT) THEN given
      ELSE IF n = 0 THEN ZeroStats
      ELSE LET st == Accumulate(samples, 1,
                       [ sample_count |-> n, min |-> samples[1], max |-> samples[1],
                         mean |-> [sum |-> 0, n |-> 1] ])
           IN  [st EXCEPT !.mean = [sum |-> st.mean.sum, n |-> n]]

\* the counter of dropped records.  perf_context_t has no such field and no
\* path of the publishing calls counts a record it does not write (the
\* capacity test has no else branch): whatever is taken for the drop counter
\* still has the value perf_init_with_config's memset gave it
drop_count == 0

(***************************************************************************)
(* Configuration and lifecycle.                                            *)
(***************************************************************************)
perf_set_enabled(t, enabled) ==
  /\ CanCall(t, "set_enabled")
  /\ config' = [config EXCEPT !.enabled = enabled]
  /\ Finish(t, Enter(t, "set_enabled"), "set")
  /\ UNCHANGED << log_entries, log_count, log_capacity, milestone_starts,
                  milestone_active, active_threads, max_threads_used, wild_write,
                  clock, history, host, registry, counters, allocator, reported >>

\* `for (i = 0; i < PERF_MILESTONE_COUNT; i++) milestone_active[i] = 0;`
ClearedFlags_kept == milestone_active
ClearedFlags == [k \in Milestones |-> 0]

\* perf_init_with_config past its NULL test, malloc succeeding: the context is
\* zeroed, the configuration copied, a buffer allocated (the one held before
\* is not freed), program_start_time stamped; the thread-local thread ids are
\* not part of the context
InitWithConfig(c) ==
  /\ config' = c
  /\ log_capacity' = PERF_MAX_LOG_ENTRIES
  /\ log_entries' = [i \in 0 .. (PERF_MAX_LOG_ENTRIES - 1) |-> host.heap]
  /\ log_count' = 0
  /\ thread_data' = [i \in 0 .. (PERF_MAX_THREADS - 1) |-> ZeroThread]
  /\ allocation_counter' = 0
  /\ bytes_allocated' = 0
  /\ bytes_freed' = 0
  /\ active_threads' = 0
  /\ program_start_time' = clock
  /\ milestone_starts' = [k \in Milestones |-> ZeroTime]
  /\ milestone_active' = ClearedFlags
  /\ max_threads_used' = 0
  /\ written_by' = [i \in DOMAIN written_by |-> NoCall]
  /\ end_found_active' = [k \in Tracked |-> 0]
  /\ publish_attempts' = 0
  /\ start_calls' = [k \in Tracked |-> NoStarts]
  /\ registered' = [u \in Threads |-> 0 - 1]
  /\ handed_out' = << >>
  /\ peak_active' = 0
  /\ buffer_freed' = FALSE
  /\ reported' = NoReports
  /\ UNCHANGED << wild_write, clock, host, tls_thread_id, memory_fault >>

\* perf_init_with_config when malloc returns NULL: the context is zeroed, the
\* configuration copied and log_capacity set, and the call returns -1 before
\* the counters are stored and program_start_time is stamped
InitWithoutBuffer(c) ==
  /\ config' = c
  /\ log_capacity' = PERF_MAX_LOG_ENTRIES
  /\ log_entries' = << >>
  /\ log_count' = 0
  /\ thread_data' = [i \in 0 .. (PERF_MAX_THREADS - 1) |-> ZeroThread]
  /\ allocation_counter' = 0
  /\ bytes_allocated' = 0
  /\ bytes_freed' = 0
  /\ active_threads' = 0
  /\ program_start_time' = ZeroTime
  /\ milestone_starts' = [k \in Milestones |-> ZeroTime]
  /\ milestone_active' = ClearedFlags
  /\ max_threads_used' = 0
  /\ written_by' = [i \in DOMAIN written_by |-> NoCall]
  /\ end_found_active' = [k \in Tracked |-> 0]
  /\ publish_attempts' = 0
  /\ start_calls' = [k \in Tracked |-> NoStarts]
  /\ registered' = [u \in Threads |-> 0 - 1]
  /\ handed_out' = << >>
  /\ peak_active' = 0
  /\ buffer_freed' = FALSE
  /\ reported' = NoReports
  /\ UNCHANGED << wild_write, clock, host, tls_thread_id, memory_fault >>

\* perf_init_with_config is called with no other call in progress; malloc
\* gives a buffer (ok) or NULL
perf_init_with_config(t, c, ok) ==
  /\ CanCall(t, "init_with_config")
  /\ \A u \in Threads : pc[u] = "idle"
  /\ IF c = NullConfig
       THEN /\ Finish(t, Enter(t, "init_with_config"), "failed")
            /\ UNCHANGED << shared, clock, history, host, registry, counters, allocator, reported >>
       ELSE IF ok
         THEN /\ Finish(t, [Enter(t, "init_with_config") EXCEPT !.config = c],
                     "initialized")
              /\ InitWithConfig(c)
         ELSE /\ Finish(t, [Enter(t, "init_with_config") EXCEPT !.config = c],
                     "failed")
              /\ InitWithoutBuffer(c)

perf_init(t, ok) ==
  /\ CanCall(t, "init")
  /\ \A u \in Threads : pc[u] = "idle"
  /\ IF ok
       THEN /\ Finish(t, Enter(t, "init"), "initialized")
            /\ InitWithConfig(DefaultConfig)
       ELSE /\ Finish(t, Enter(t, "init"), "failed")
            /\ InitWithoutBuffer(DefaultConfig)

\* perf_cleanup: perf_flush_logs prints and changes nothing; the buffer is
\* freed and the context zeroed
\* the loop of perf_flush_logs reads log_entries[i]: an access to a freed
\* block when the buffer has been freed
FlushFault(fault) ==
  IF fault = "none" /\ buffer_freed /\ log_count > 0
       /\ config.enabled /\ config.output_file # "NULL"
    THEN "use_after_free" ELSE fault

\* `free(g_perf_context.log_entries);`: free(NULL) does nothing, the free of a
\* block already freed is a double free
FreeFault_null(fault) ==
  IF fault = "none" /\ (buffer_freed \/ log_entries = << >>)
    THEN "double_free" ELSE fault
FreeFault(fault) ==
  IF fault = "none" /\ buffer_freed /\ log_entries # << >>
    THEN "double_free" ELSE fault

\* perf_cleanup: the flush of an enabled context, then free and memset
perf_cleanup(t) ==
  /\ CanCall(t, "cleanup")
  /\ \A u \in Threads : pc[u] = "idle"
  /\ Finish(t, [Enter(t, "cleanup") EXCEPT
                  !.out = FlushLines(config, log_entries, log_count)], "cleaned")
  /\ config' = ZeroConfig
  /\ log_capacity' = 0
  /\ log_entries' = << >>
  /\ log_count' = 0
  /\ thread_data' = [i \in 0 .. (PERF_MAX_THREADS - 1) |-> ZeroThread]
  /\ allocation_counter' = 0
  /\ bytes_allocated' = 0
  /\ bytes_freed' = 0
  /\ active_threads' = 0
  /\ program_start_time' = ZeroTime
  /\ milestone_starts' = [k \in Milestones |-> ZeroTime]
  /\ milestone_active' = ClearedFlags
  /\ max_threads_used' = 0
  /\ written_by' = [i \in DOMAIN written_by |-> NoCall]
  /\ end_found_active' = [k \in Tracked |-> 0]
  /\ publish_attempts' = 0
  /\ start_calls' = [k \in Tracked |-> NoStarts]
  /\ registered' = [u \in Threads |-> 0 - 1]
  /\ handed_out' = << >>
  /\ peak_active' = 0
  /\ buffer_freed' = FALSE
  /\ memory_fault' = FreeFault(FlushFault(memory_fault))
  /\ reported' = NoReports
  /\ UNCHANGED << wild_write, clock, host, tls_thread_id >>

perf_set_config(t, c) ==
  /\ CanCall(t, "set_config")
  /\ config' = IF c = NullConfig THEN config ELSE c
  /\ Finish(t, Enter(t, "set_config"), "set")
  /\ UNCHANGED << log_entries, log_count, log_capacity, milestone_starts,
                  milestone_active, active_threads, max_threads_used, wild_write,
                  clock, history, host, registry, counters, allocator, reported >>

perf_set_output_format(t, format) ==
  /\ CanCall(t, "set_output_format")
  /\ config' = [config EXCEPT !.output_format = format]
  /\ Finish(t, Enter(t, "set_output_format"), "set")
  /\ UNCHANGED << log_entries, log_count, log_capacity, milestone_starts,
                  milestone_active, active_threads, max_threads_used, wild_write,
                  clock, history, host, registry, counters, allocator, reported >>

\* perf_flush_logs called by the host
perf_flush_logs(t) ==
  /\ CanCall(t, "flush")
  /\ Finish(t, [Enter(t, "flush") EXCEPT
                  !.out = FlushLines(config, log_entries, log_count)],
            IF ~IsEnabled \/ config.output_file = "NULL" THEN "gated" ELSE "flushed")
  /\ UNCHANGED << shared, clock, history, host, registry, counters, allocator, reported >>

\* the FILE fopen(filename, "w") returns when it opens the file
Fopen(filename) == "file"

\* the last two assignments of perf_export_csv
Restored_file(cfg, old_output, old_format) == [cfg EXCEPT !.output_file = old_output]
Restored(cfg, old_output, old_format) ==
  [cfg EXCEPT !.output_file = old_output, !.output_format = old_format]

\* perf_export_csv(filename); fopen opens the file (opened) or returns NULL
perf_export_csv(t, filename, opened) ==
  /\ CanCall(t, "export_csv")
  /\ LET f == [Enter(t, "export_csv") EXCEPT !.label = filename]
         old_output == config.output_file
         old_format == config.output_format
         during == [config EXCEPT !.output_file = Fopen(filename),
                                  !.output_format = PERF_FORMAT_CSV]
     IN  IF filename = NULL
           THEN /\ Finish(t, f, "gated")
                /\ UNCHANGED config
           ELSE IF ~opened
             THEN /\ Finish(t, f, "unopened")
                  /\ config' = [config EXCEPT !.output_file = old_output]
             ELSE /\ Finish(t, [f EXCEPT !.out = << CsvHeader(during.output_file) >>
                                   \o FlushLines(during, log_entries, log_count)],
                          "exported")
                  /\ config' = Restored(during, old_output, old_format)
  /\ UNCHANGED << log_entries, log_count, log_capacity, milestone_starts,
                  milestone_active, active_threads, max_threads_used, wild_write,
                  clock, history, host, registry, counters, allocator, reported >>

(***************************************************************************)
(* perf_init and perf_cleanup step by step, for hosts that call them from  *)
(* several threads: neither takes a lock.                                  *)
(***************************************************************************)
\* `memset(&g_perf_context, 0, sizeof(perf_context_t));` followed by the
\* stores of config c and capacity cap (both zero in perf_cleanup): the
\* pointer to the buffer is lost, freed or not
Memset(c, cap) ==
  /\ config' = c
  /\ log_capacity' = cap
  /\ log_entries' = << >>
  /\ log_count' = 0
  /\ thread_data' = [i \in 0 .. (PERF_MAX_THREADS - 1) |-> ZeroThread]
  /\ allocation_counter' = 0
  /\ bytes_allocated' = 0
  /\ bytes_freed' = 0
  /\ active_threads' = 0
  /\ program_start_time' = ZeroTime
  /\ milestone_starts' = [k \in Milestones |-> ZeroTime]
  /\ milestone_active' = ClearedFlags
  /\ max_threads_used' = 0
  /\ written_by' = [i \in DOMAIN written_by |-> NoCall]
  /\ end_found_active' = [k \in Tracked |-> 0]
  /\ publish_attempts' = 0
  /\ start_calls' = [k \in Tracked |-> NoStarts]
  /\ registered' = [u \in Threads |-> 0 - 1]
  /\ handed_out' = << >>
  /\ peak_active' = 0
  /\ buffer_freed' = FALSE
  /\ reported' = NoReports
  /\ UNCHANGED << wild_write, clock, host, tls_thread_id, memory_fault >>

\* perf_init up to the malloc: memset, config and log_capacity
InitEnter(t) ==
  /\ CanCall(t, "init")
  /\ Goto(t, [Enter(t, "init") EXCEPT !.config = DefaultConfig], "init_malloc")
  /\ Memset(DefaultConfig, PERF_MAX_LOG_ENTRIES)

\* `g_perf_context.log_entries = malloc(...)`, a new block
InitMalloc(t) ==
  /\ pc[t] = "init_malloc"
  /\ pc' = [pc EXCEPT ![t] = "init_store"]
  /\ log_entries' = [i \in 0 .. (PERF_MAX_LOG_ENTRIES - 1) |-> host.heap]
  /\ buffer_freed' = FALSE
  /\ UNCHANGED << config, log_count, log_capacity, milestone_starts, milestone_active,
                  active_threads, max_threads_used, wild_write, clock, frame, ncalls,
                  history, host, registry, counters, memory_fault, reported >>

\* the stores after the malloc, and `return 0;`
InitStore(t) ==
  /\ pc[t] = "init_store"
  /\ pc' = [pc EXCEPT ![t] = "ret"]
  /\ frame' = [frame EXCEPT ![t].ret = "initialized"]
  /\ allocation_counter' = 0
  /\ bytes_allocated' = 0
  /\ bytes_freed' = 0
  /\ active_threads' = 0
  /\ program_start_time' = clock
  /\ milestone_active' = ClearedFlags
  /\ UNCHANGED << config, log_entries, log_count, log_capacity, milestone_starts,
                  max_threads_used, wild_write, clock, ncalls, history, host,
                  registry, allocator, reported >>

\* perf_cleanup up to the free: the flush of an enabled context
CleanupEnter(t) ==
  /\ CanCall(t, "cleanup")
  /\ Goto(t, [Enter(t, "cleanup") EXCEPT
                !.out = FlushLines(config, log_entries, log_count)], "cleanup_free")
  /\ memory_fault' = FlushFault(memory_fault)
  /\ UNCHANGED << shared, clock, history, host, registry, counters, buffer_freed,
                  reported >>

\* `free(g_perf_context.log_entries);`
CleanupFree(t) ==
  /\ pc[t] = "cleanup_free"
  /\ pc' = [pc EXCEPT ![t] = "cleanup_memset"]
  /\ memory_fault' = FreeFault(memory_fault)
  /\ buffer_freed' = (buffer_freed \/ log_entries # << >>)
  /\ UNCHANGED << shared, clock, frame, ncalls, history, host, registry, counters,
                  reported >>

\* `memset(&g_perf_context, 0, sizeof(perf_context_t));`, the last statement
CleanupMemset(t) ==
  /\ pc[t] = "cleanup_memset"
  /\ pc' = [pc EXCEPT ![t] = "ret"]
  /\ frame' = [frame EXCEPT ![t].ret = "cleaned"]
  /\ UNCHANGED ncalls
  /\ Memset(ZeroConfig, 0)

\* `if (!ptr || !enabled || !track_memory) return;`, else the two atomic
\* fetch-and-adds
perf_track_allocation(t, ptr, size) ==
  /\ CanCall(t, "track_allocation")
  /\ IF ptr = NULL \/ ~IsEnabled \/ ~config.track_memory
       THEN /\ Finish(t, Enter(t, "track_allocation"), "gated")
            /\ UNCHANGED << allocation_counter, bytes_allocated, reported >>
       ELSE /\ Finish(t, Enter(t, "track_allocation"), "tracked")
            /\ allocation_counter' = allocation_counter + 1
            /\ bytes_allocated' = bytes_allocated + size
            /\ reported' = [n |-> reported.n + 1, bytes |-> reported.bytes + size]
  /\ UNCHANGED << shared, clock, history, host, registry, bytes_freed,
                  program_start_time, allocator >>

\* what atomic_fetch_add(&bytes_allocated, size) leaves in bytes_allocated
AddBytes_store(bytes, size) == size
AddBytes(bytes, size) == bytes + size

\* perf_track_allocation step by step, for hosts that call it from several
\* threads: its test and `atomic_fetch_add(&allocation_counter, 1);`
TrackEnter(t, ptr, size) ==
  /\ CanCall(t, "track_allocation")
  /\ LET f == [Enter(t, "track_allocation") EXCEPT !.label = ptr, !.value = size]
     IN  IF ptr = NULL \/ ~IsEnabled \/ ~config.track_memory
           THEN /\ Finish(t, f, "gated")
                /\ UNCHANGED << allocation_counter, reported >>
           ELSE /\ Goto(t, f, "track_bytes")
                /\ allocation_counter' = allocation_counter + 1
                /\ reported' = [n |-> reported.n + 1, bytes |-> reported.bytes + size]
  /\ UNCHANGED << shared, clock, history, host, registry, bytes_allocated, bytes_freed,
                  program_start_time, allocator >>

\* `atomic_fetch_add(&g_perf_context.bytes_allocated, size);`
TrackBytes(t) ==
  /\ pc[t] = "track_bytes"
  /\ pc' = [pc EXCEPT ![t] = "ret"]
  /\ frame' = [frame EXCEPT ![t].ret = "tracked"]
  /\ bytes_allocated' = AddBytes(bytes_allocated, frame[t].value)
  /\ UNCHANGED << shared, clock, ncalls, history, host, registry, allocation_counter,
                  bytes_freed, program_start_time, allocator, reported >>

\* bytes_freed after perf_track_deallocation(ptr): past the test there are
\* only comments, the size freed is not known
BytesFreedAfter_counted(ptr) ==
  IF ptr = NULL \/ ~IsEnabled \/ ~config.track_memory THEN bytes_freed
  ELSE bytes_freed + 1
BytesFreedAfter(ptr) == bytes_freed

\* perf_track_deallocation: its test, and nothing after it
perf_track_deallocation(t, ptr) ==
  /\ CanCall(t, "track_deallocation")
  /\ Finish(t, [Enter(t, "track_deallocation") EXCEPT !.label = ptr],
            IF ptr = NULL \/ ~IsEnabled \/ ~config.track_memory
              THEN "gated" ELSE "ignored")
  /\ bytes_freed' = BytesFreedAfter(ptr)
  /\ UNCHANGED << shared, clock, history, host, registry, allocation_counter,
                  bytes_allocated, program_start_time, allocator, reported >>

\* perf_get_milestone_statistics(milestone, &stats) called by the host with
\* a struct holding `given`; the value returned is kept in the frame.
\* `if (!samples) return -1;` follows the memset: when malloc gives no
\* sample array the statistics are zeroed whatever the buffer holds
GetStatistics(t, milestone, given, allocated) ==
  /\ CanCall(t, "statistics")
  /\ IF EnumGE(milestone, PERF_MILESTONE_COUNT) \/ allocated
       THEN Finish(t, [Enter(t, "statistics") EXCEPT
                         !.milestone = milestone,
                         !.value = perf_get_milestone_statistics(milestone),
                         !.given = given,
                         !.stats = StatsAfter(milestone, given)],
                   "returned")
       ELSE Finish(t, [Enter(t, "statistics") EXCEPT
                         !.milestone = milestone,
                         !.value = 0 - 1,
                         !.given = given,
                         !.stats = ZeroStats],
                   "no_memory")
  /\ UNCHANGED << shared, clock, history, host, registry, counters, allocator,
                  reported >>

\* perf_reset is called between runs, with no recording call in progress
perf_reset(t) ==
  /\ CanCall(t, "reset")
  /\ \A u \in Threads : pc[u] = "idle"
  /\ IF ~IsEnabled
       THEN /\ Finish(t, Enter(t, "reset"), "gated")
            /\ UNCHANGED << log_count, max_threads_used, milestone_active, history,
                            peak_active, program_start_time >>
       ELSE /\ log_count' = 0
            /\ max_threads_used' = 0
            /\ program_start_time' = clock
            /\ peak_active' = active_threads
            /\ milestone_active' = ClearedFlags
            /\ written_by' = [i \in DOMAIN written_by |-> NoCall]
            /\ end_found_active' = [k \in Tracked |-> 0]
            /\ publish_attempts' = 0
            /\ start_calls' = [k \in Tracked |-> NoStarts]
            /\ Finish(t, Enter(t, "reset"), "reset")
  /\ UNCHANGED << config, log_entries, log_capacity, milestone_starts, active_threads,
                  wild_write, clock, host, thread_data, tls_thread_id, registered,
                  handed_out, allocation_counter, bytes_allocated, bytes_freed,
                  allocator, reported >>

\* what atomic_fetch_add(&active_threads, 1) and atomic_fetch_sub(&active_threads, 1)
\* leave in active_threads
FetchAdd(v) == v + 1
FetchSub_none(v) == v
FetchSub(v) == v - 1

\* `int thread_id = thread_count;`
ThreadIdOf_fresh(thread_count) == Len(handed_out)
ThreadIdOf(thread_count) == thread_count

\* `if (!enabled || !track_threads) return -1;`, else the atomic fetch-and-add
\* on active_threads
perf_register_thread(t) ==
  /\ CanCall(t, "register")
  /\ LET f == Enter(t, "register")
     IN  IF ~IsEnabled \/ ~config.track_threads
           THEN Finish(t, f, "gated") /\ UNCHANGED << active_threads, peak_active >>
           ELSE /\ active_threads' = FetchAdd(active_threads)
                /\ peak_active' = Max(peak_active, FetchAdd(active_threads))
                /\ Goto(t, [f EXCEPT !.tmp = active_threads,
                                     !.idx = ThreadIdOf(active_threads)],
                        "register_slot")
  /\ UNCHANGED << config, log_entries, log_count, log_capacity, milestone_starts,
                  milestone_active, max_threads_used, wild_write, clock, history, host,
                  thread_data, tls_thread_id, registered, handed_out, counters, allocator, reported >>

\* set_thread_id(thread_id) and the stores into thread_data[thread_id]; the
\* index is not tested against PERF_MAX_THREADS
RegisterSlot(t) ==
  /\ pc[t] = "register_slot"
  /\ LET i == frame[t].idx
     IN  /\ tls_thread_id' = [tls_thread_id EXCEPT ![t] = i]
         /\ thread_data' =
              IF i \in DOMAIN thread_data
                THEN [thread_data EXCEPT ![i] =
                        [@ EXCEPT !.omp_thread_num = 0 - 1, !.thread_id = i,
                                  !.start_time = clock]]
                ELSE thread_data
         /\ wild_write' = (wild_write \/ i \notin DOMAIN thread_data)
  /\ pc' = [pc EXCEPT ![t] = "register_max"]
  /\ UNCHANGED << config, log_entries, log_count, log_capacity, milestone_starts,
                  milestone_active, active_threads, max_threads_used, clock, frame,
                  ncalls, history, host, registered, handed_out, peak_active, counters, allocator, reported >>

\* `if (thread_count + 1 > g_perf_context.max_threads_used)`: a plain load ...
RegisterMax(t) ==
  /\ pc[t] = "register_max"
  /\ IF frame[t].tmp + 1 > max_threads_used
       THEN Goto(t, frame[t], "register_set") /\ UNCHANGED registered
       ELSE /\ Finish(t, frame[t], "registered")
            /\ registered' = [registered EXCEPT ![t] = frame[t].tmp]
  /\ UNCHANGED << shared, clock, history, host, thread_data, tls_thread_id,
                  handed_out, peak_active, counters, allocator, reported >>

\* ... and a plain store, `max_threads_used = thread_count + 1;`
RegisterSet(t) ==
  /\ pc[t] = "register_set"
  /\ max_threads_used' = frame[t].tmp + 1
  /\ Finish(t, frame[t], "registered")
  /\ registered' = [registered EXCEPT ![t] = frame[t].tmp]
  /\ UNCHANGED << config, log_entries, log_count, log_capacity, milestone_starts,
                  milestone_active, active_threads, wild_write, clock, history, host,
                  thread_data, tls_thread_id, handed_out, peak_active, counters, allocator, reported >>

\* `if (!enabled || !track_threads) return;`, else the thread's id is read and,
\* if it indexes thread_data, the slot's end_time is stamped
perf_unregister_thread(t) ==
  /\ CanCall(t, "unregister")
  /\ LET f == Enter(t, "unregister")
         i == tls_thread_id[t]
     IN  IF ~IsEnabled \/ ~config.track_threads
           THEN Finish(t, f, "gated") /\ UNCHANGED thread_data
           ELSE /\ thread_data' =
                     IF i >= 0 /\ i < PERF_MAX_THREADS
                       THEN [thread_data EXCEPT ![i].end_time = clock]
                       ELSE thread_data
                /\ Goto(t, [f EXCEPT !.idx = i, !.prior = registered[t]],
                        "unregister_sub")
  /\ UNCHANGED << shared, clock, history, host, tls_thread_id, registered,
                  handed_out, peak_active, counters, allocator, reported >>

\* the atomic fetch-and-sub on active_threads
UnregisterSub(t) ==
  /\ pc[t] = "unregister_sub"
  /\ active_threads' = FetchSub(active_threads)
  /\ registered' = [registered EXCEPT ![t] = 0 - 1]
  /\ Finish(t, frame[t], "unregistered")
  /\ UNCHANGED << config, log_entries, log_count, log_capacity, milestone_starts,
                  milestone_active, max_threads_used, wild_write, clock, history, host,
                  thread_data, tls_thread_id, handed_out, peak_active, counters, allocator, reported >>

\* time passes
Tick ==
  /\ Ticks(clock) < host.ticks
  /\ clock' = TickTime(clock)
  /\ UNCHANGED << shared, pc, frame, ncalls, history, host, registry, counters, allocator, reported >>

(***************************************************************************)
(* The specifications.                                                     *)
(***************************************************************************)
\* a recording call of thread t
Call(t) ==
  \/ \E m \in host.milestones :
       \/ perf_start_milestone(t, m)
       \/ perf_end_milestone(t, m)
       \/ \E l \in host.labels :
            \/ perf_start_milestone_labeled(t, m, l)
            \/ perf_end_milestone_labeled(t, m, l)
  \/ \E l \in host.labels, v \in host.values :
       \/ perf_log_event(t, l, v)
       \/ \E c \in host.contexts : perf_log_event_with_context(t, l, v, c)
  \/ \E i \in host.iterations, v \in host.metrics : perf_log_iteration(t, i, v)
  \/ \E a \in host.names, s \in host.names, v \in host.metrics :
       perf_log_algorithm_step(t, a, s, v)

\* a step of a call in progress
Step(t) ==
  \/ EventEnter(t)
  \/ Slot(t)
  \/ Fill(t)
  \/ Load(t)
  \/ Store(t)
  \/ Clear(t)
  \/ Return(t)

\* a step of a register or unregister call in progress
RegistryStep(t) ==
  \/ RegisterSlot(t)
  \/ RegisterMax(t)
  \/ RegisterSet(t)
  \/ UnregisterSub(t)

Next ==
  \/ \E t \in Threads :
       \/ Call(t)
       \/ Step(t)
       \/ RegistryStep(t)
       \/ \E e \in BOOLEAN : perf_set_enabled(t, e)
       \/ perf_reset(t)
       \/ perf_register_thread(t)
       \/ perf_unregister_thread(t)
  \/ Tick

NextConc == \E t \in Threads : Call(t) \/ Step(t)

NextRace ==
  \E t \in Threads :
    \/ \E l \in host.labels, v \in host.values, c \in host.contexts :
         perf_log_event_with_context(t, l, v, c)
    \/ \E i \in host.iterations, v \in host.metrics : perf_log_iteration(t, i, v)
    \/ Slot(t)
    \/ Fill(t)
    \/ Load(t)
    \/ Store(t)
    \/ Return(t)

NextFill ==
  \/ \E t \in Threads :
       \/ \E l \in host.labels, v \in host.values, c \in host.contexts :
            perf_log_event_with_context(t, l, v, c)
       \/ Slot(t)
       \/ Fill(t)
       \/ Load(t)
       \/ Store(t)
       \/ Return(t)
  \/ Tick

\* the worker of HostCycle registers when it is not registered and no other
\* thread is in a call, works and unregisters while it is registered; the
\* other thread registers before the worker begins
MayRegister(t) ==
  /\ registered[t] < 0
  /\ \A u \in Threads \ {t} : pc[u] = "idle"
  /\ t # 1 => ncalls[1] = 0

NextCycle ==
  \/ \E t \in Threads :
       \/ MayRegister(t) /\ perf_register_thread(t)
       \/ registered[t] >= 0 /\ perf_unregister_thread(t)
       \/ /\ registered[t] >= 0
          /\ \E m \in host.milestones :
               perf_start_milestone(t, m) \/ perf_end_milestone(t, m)
       \/ Slot(t)
       \/ Fill(t)
       \/ Load(t)
       \/ Store(t)
       \/ Clear(t)
       \/ Return(t)
       \/ RegistryStep(t)
  \/ Tick

NextReg ==
  \E t \in Threads :
    \/ registered[t] < 0 /\ perf_register_thread(t)
    \/ registered[t] >= 0 /\ perf_unregister_thread(t)
    \/ RegistryStep(t)
    \/ Return(t)

NextLife ==
  \/ Tick
  \/ \E t \in Threads :
    \/ \E ok \in host.malloc : perf_init(t, ok)
    \/ \E c \in host.configs, ok \in host.malloc : perf_init_with_config(t, c, ok)
    \/ perf_cleanup(t)
    \/ perf_reset(t)
    \/ \E p \in host.ptrs, z \in host.sizes : perf_track_allocation(t, p, z)
    \/ perf_register_thread(t)
    \/ \E m \in host.milestones : perf_start_milestone(t, m)
    \/ \E l \in host.labels, v \in host.values : perf_log_event(t, l, v)
    \/ RegisterSlot(t)
    \/ RegisterMax(t)
    \/ RegisterSet(t)
    \/ Slot(t)
    \/ Fill(t)
    \/ Load(t)
    \/ Store(t)
    \/ Return(t)

NextNoMem ==
  \E t \in Threads :
    \/ \E ok \in host.malloc : perf_init(t, ok)
    \/ \E m \in host.milestones : perf_start_milestone(t, m) \/ perf_end_milestone(t, m)
    \/ \E l \in host.labels, v \in host.values : perf_log_event(t, l, v)
    \/ \E i \in host.iterations, v \in host.metrics : perf_log_iteration(t, i, v)
    \/ Slot(t)
    \/ Fill(t)
    \/ Load(t)
    \/ Store(t)
    \/ Clear(t)
    \/ Return(t)

NextOut ==
  \E t \in Threads :
    \/ \E c \in host.configs : perf_set_config(t, c)
    \/ \E fmt \in host.formats : perf_set_output_format(t, fmt)
    \/ perf_set_enabled(t, FALSE)
    \/ perf_flush_logs(t)
    \/ \E p \in host.paths, o \in host.fopen : perf_export_csv(t, p, o)
    \/ perf_cleanup(t)
    \/ \E m \in host.milestones : perf_start_milestone(t, m) \/ perf_end_milestone(t, m)
    \/ \E l \in host.labels, v \in host.values : perf_log_event(t, l, v)
    \/ \E i \in host.iterations, v \in host.metrics : perf_log_iteration(t, i, v)
    \/ Slot(t)
    \/ Fill(t)
    \/ Load(t)
    \/ Store(t)
    \/ Clear(t)
    \/ Return(t)

NextLabel ==
  \E t \in Threads :
    \/ \E m \in host.milestones, l \in host.labels :
         \/ perf_start_milestone_labeled(t, m, l)
         \/ perf_end_milestone_labeled(t, m, l)
    \/ \E l \in host.labels, v \in host.values : perf_log_event(t, l, v)
    \/ Slot(t)
    \/ Fill(t)
    \/ Load(t)
    \/ Store(t)
    \/ Clear(t)
    \/ Return(t)

\* concurrent_init_thread: perf_init, then perf_cleanup, again and again
NextInit ==
  \E t \in Threads :
    \/ ncalls[t] % 2 = 0 /\ InitEnter(t)
    \/ InitMalloc(t)
    \/ InitStore(t)
    \/ ncalls[t] % 2 = 1 /\ CleanupEnter(t)
    \/ CleanupFree(t)
    \/ CleanupMemset(t)
    \/ Return(t)

\* the calls of the fixtures in their order: cleanup, cleanup, init, one
\* recording call, and again; the second cleanup of the first round stands
\* for a tearDown that ran on the context never initialised
NextFixture ==
  \/ \E t \in Threads :
       \/ ncalls[t] % 4 \in {0, 1} /\ perf_cleanup(t)
       \/ ncalls[t] % 4 = 2 /\ \E ok \in host.malloc : perf_init(t, ok)
       \/ /\ ncalls[t] % 4 = 3
          /\ \/ \E m \in host.milestones : perf_start_milestone(t, m)
             \/ \E l \in host.labels, v \in host.values : perf_log_event(t, l, v)
             \/ \E i \in host.iterations, v \in host.metrics : perf_log_iteration(t, i, v)
       \/ Slot(t)
       \/ Fill(t)
       \/ Load(t)
       \/ Store(t)
       \/ Return(t)
  \/ Tick

\* atomic_counter_thread: perf_track_allocation, perf_track_deallocation
NextTrack ==
  \E t \in Threads :
    \/ \E p \in host.ptrs, n \in host.sizes : TrackEnter(t, p, n)
    \/ TrackBytes(t)
    \/ \E p \in host.ptrs : perf_track_deallocation(t, p)
    \/ perf_set_enabled(t, FALSE)
    \/ Return(t)

NextFlush ==
  \E t \in Threads :
    \/ \E c \in host.configs : perf_set_config(t, c)
    \/ \E fmt \in host.formats : perf_set_output_format(t, fmt)
    \/ perf_flush_logs(t)
    \/ \E m \in host.milestones : perf_start_milestone(t, m) \/ perf_end_milestone(t, m)
    \/ \E l \in host.labels, v \in host.values : perf_log_event(t, l, v)
    \/ Slot(t)
    \/ Fill(t)
    \/ Load(t)
    \/ Store(t)
    \/ Clear(t)
    \/ Return(t)

NextStats ==
  \E t \in Threads :
    \/ \E m \in host.milestones : perf_start_milestone(t, m) \/ perf_end_milestone(t, m)
    \/ \E l \in host.labels, v \in host.values : perf_log_event(t, l, v)
    \/ \E i \in host.iterations, v \in host.metrics : perf_log_iteration(t, i, v)
    \/ \E k \in host.queries, st \in host.stats, ok \in host.malloc :
         GetStatistics(t, k, st, ok)
    \/ Slot(t)
    \/ Fill(t)
    \/ Load(t)
    \/ Store(t)
    \/ Clear(t)
    \/ Return(t)

NextArgs == (\E t \in Threads : Call(t) \/ Step(t)) \/ Tick

\* one host thread calling the library
Spec == Init /\ [][Next]_vars

\* two producer threads calling the library concurrently
SpecConc == InitConc /\ [][NextConc]_vars

\* one thread logging more events than the buffer holds
SpecFill == InitFill /\ [][NextFill]_vars

\* NThreads threads logging events and iterations concurrently
SpecRace == InitRace /\ [][NextRace]_vars

\* a worker thread in register .. unregister cycles
SpecCycle == InitCycle /\ [][NextCycle]_vars

\* NThreads threads registering and unregistering concurrently
SpecReg == InitReg /\ [][NextReg]_vars

\* one thread taking the library through its lifecycle
SpecLife == InitLife /\ [][NextLife]_vars

\* one thread configuring the output, recording, flushing and exporting
SpecOut == InitOut /\ [][NextOut]_vars

\* one thread recording under labels of several lengths
SpecLabel == InitLabel /\ [][NextLabel]_vars

\* threads that initialise and clean up concurrently
SpecInit == InitInit /\ [][NextInit]_vars

\* the test fixtures, from the context the program starts with
SpecFixture == InitFixture /\ [][NextFixture]_vars

\* threads reporting allocations and deallocations concurrently
SpecTrack == InitTrack /\ [][NextTrack]_vars

\* one thread recording and asking for statistics
SpecFlush == InitFlush /\ [][NextFlush]_vars

SpecStats == InitStats /\ [][NextStats]_vars

\* one thread recording after an initialisation that may have failed
SpecNoMem == InitNoMem /\ [][NextNoMem]_vars

\* one thread recording milestones, events and iterations of either sign
SpecArgs == InitArgs /\ [][NextArgs]_vars

(***************************************************************************)
(* Properties.                                                             *)
(***************************************************************************)
Quiescent == \A t \in Threads : pc[t] = "idle"

\* thread t enters a recording call in this step
Enters(t) == pc[t] = "idle" /\ ncalls'[t] # ncalls[t]

\* the records in the buffer
Published == 0 .. (Min(log_count, log_capacity) - 1)

\* end minus start, in thousandths of a millisecond
Elapsed(start, end) ==
  (end.tv_sec - start.tv_sec) * 1000000 + (end.tv_nsec - start.tv_nsec) \div 1000

\* C1: while config.enabled is 0 a recording call returns at its first test and
\* publishes nothing: log_count and the buffered entries are unchanged, and so
\* they are by every step the single-threaded host takes while disabled
C1_DisabledPublishesNothing ==
  [][ /\ \A t \in Threads :
           (Enters(t) /\ frame'[t].fn \in Recording /\ ~config.enabled)
             => /\ pc'[t] = "ret"
                /\ log_count' = log_count
                /\ log_entries' = log_entries
      /\ ~config.enabled => (log_count' = log_count /\ log_entries' = log_entries)
    ]_vars

\* an event with a label was refused on a non-empty buffer because the library
\* is disabled
C1_Witness ==
  \E t \in Threads :
    /\ pc[t] = "ret"
    /\ ~config.enabled
    /\ frame[t].fn = "event"
    /\ frame[t].label # NULL
    /\ frame[t].ret = "gated"
    /\ log_count > 0

\* C2: log_count never exceeds log_capacity, whatever the interleaving of the
\* producer threads
C2_CountWithinCapacity == log_count <= log_capacity

\* C3: once every call has returned, the records of kind k that end() calls
\* put in the buffer are as many as the end(k) calls that found
\* milestone_active[k] set
C3_OneRecordPerEnd ==
  Quiescent =>
    \A k \in Milestones :
      Cardinality({ i \in Published :
                      written_by[i].fn = "end" /\ log_entries[i].milestone = k })
        = IF k \in Tracked THEN end_found_active[k] ELSE 0

\* C4: a published record (index below log_count) is never written again
C4_PublishedNeverMutated ==
  [][ \A i \in DOMAIN log_entries :
        i < log_count => (log_entries'[i] = log_entries[i] /\ written_by'[i] = written_by[i])
    ]_vars

\* C5: with the library enabled, a valid kind k whose flag is set and room in
\* the buffer, end(k) publishes: when it returns log_count is one more than
\* when it was called, the record at the previous log_count has milestone k
\* and the duration from the stored start to the end time, and
\* milestone_active[k] is 0
C5_StartEndPublishesOne ==
  /\ [][ \A t \in Threads :
           ( /\ Enters(t)
             /\ frame'[t].fn = "end"
             /\ config.enabled
             /\ frame'[t].milestone \in Milestones
             /\ milestone_active[frame'[t].milestone] # 0
             /\ log_count < log_capacity )
           => pc'[t] = "slot"
       ]_vars
  /\ [] ( \A t \in Threads :
            (pc[t] = "ret" /\ frame[t].fn = "end" /\ frame[t].ret = "published")
              => LET k == frame[t].milestone
                     e == log_entries[frame[t].pre_count]
                 IN  /\ log_count = frame[t].pre_count + 1
                     /\ e.milestone = k
                     /\ e.duration_ms = Elapsed(milestone_starts[k], e.timestamp)
                     /\ e.duration_ms >= 0
                     /\ milestone_active[k] = 0 )

\* an end() has published a record of a milestone that lasted some time
C5_Witness ==
  \E t \in Threads :
    /\ pc[t] = "ret"
    /\ frame[t].fn = "end"
    /\ frame[t].ret = "published"
    /\ log_count = frame[t].pre_count + 1
    /\ log_entries[frame[t].pre_count].duration_ms > 0

\* C6: end(k) called while milestone_active[k] is 0 returns at once and leaves
\* the context as it was: log_count, the entries, the milestone table, the
\* configuration
C6_EndInactiveNoop ==
  [][ \A t \in Threads :
        ( /\ Enters(t)
          /\ frame'[t].fn = "end"
          /\ frame'[t].milestone \in Milestones
          /\ milestone_active[frame'[t].milestone] = 0 )
        => (pc'[t] = "ret" /\ UNCHANGED shared)
    ]_vars

\* an end() found its milestone already ended, with the library enabled
C6_Witness ==
  \E t \in Threads :
    /\ pc[t] = "ret"
    /\ frame[t].fn = "end"
    /\ frame[t].ret = "inactive"
    /\ config.enabled
    /\ log_count > 0

\* C7: after two or more start(k), end(k) publishes exactly one record, whose
\* duration runs from the latest start; with no start(k) since the last
\* end(k), end(k) changes nothing
C7_LastStartWins ==
  /\ [][ \A t \in Threads :
           ( /\ Enters(t)
             /\ frame'[t].fn = "end"
             /\ config.enabled
             /\ frame'[t].milestone \in Milestones )
           => LET k == frame'[t].milestone
              IN  /\ (start_calls[k].n >= 2 /\ log_count < log_capacity)
                       => pc'[t] = "slot"
                  /\ start_calls[k].n = 0
                       => (pc'[t] = "ret" /\ UNCHANGED shared)
       ]_vars
  /\ [] ( \A t \in Threads :
            ( /\ pc[t] = "ret"
              /\ frame[t].fn = "end"
              /\ frame[t].ret = "published"
              /\ frame[t].starts.n >= 2 )
              => LET k == frame[t].milestone
                     e == log_entries[frame[t].pre_count]
                 IN  /\ log_count = frame[t].pre_count + 1
                     /\ e.milestone = k
                     /\ e.duration_ms = Elapsed(frame[t].starts.at, e.timestamp)
                     /\ milestone_active[k] = 0
                     /\ start_calls[k].n = 0 )

\* an end() has published after two start() made at different times
C7_Witness ==
  \E t \in Threads :
    /\ pc[t] = "ret"
    /\ frame[t].fn = "end"
    /\ frame[t].ret = "published"
    /\ frame[t].starts.n >= 2
    /\ frame[t].starts.first # frame[t].starts.at

\* C8: once every call has returned, when call A returned before call B began
\* and both their records are in the buffer, A's index is below B's, so that
\* a flush, which walks the indices upwards, writes A first (stated of the runs
\* that leave log_count within the capacity and every store inside the buffer)
C8_PublicationOrder ==
  (Quiescent /\ log_count <= log_capacity /\ ~wild_write) =>
    \A i \in Published, j \in Published :
      LET a == written_by[i]
          b == written_by[j]
      IN  (i # j /\ a.thr # 0 /\ b.thr # 0 /\ b.seen[a.thr] >= a.n) => i < j

\* C9: once every call has returned, the drop counter is the number of publish
\* attempts less the number of records in the buffer
C9_DropsCounted ==
  Quiescent => drop_count = publish_attempts - Min(log_count, log_capacity)

InvalidMilestones == {-1, PERF_MILESTONE_COUNT, PERF_MILESTONE_COUNT + 1}

\* C10: with a milestone outside [0, PERF_MILESTONE_COUNT) start() and end()
\* return at their first test and change nothing, perf_milestone_name returns
\* "UNKNOWN" and perf_get_milestone_statistics returns -1
C10_InvalidMilestone ==
  /\ [][ \A t \in Threads :
           ( /\ Enters(t)
             /\ frame'[t].fn \in {"start", "end"}
             /\ frame'[t].milestone \notin Milestones )
           => (pc'[t] = "ret" /\ UNCHANGED shared)
       ]_vars
  /\ [] ( \A m \in InvalidMilestones :
            /\ perf_milestone_name(m) = "UNKNOWN"
            /\ perf_get_milestone_statistics(m) = -1 )

\* start() and end() have been refused a milestone that is not one, with the
\* library enabled and the milestone table in use
C10_Witness ==
  \E t \in Threads :
    /\ pc[t] = "ret"
    /\ frame[t].fn \in {"start", "end"}
    /\ frame[t].milestone \notin Milestones
    /\ frame[t].ret = "gated"
    /\ config.enabled
    /\ \E k \in Milestones : milestone_active[k] # 0

\* the first PERF_MAX_LABEL_LEN - 1 characters of a string
Fitted(str) ==
  IF Len(str) < PERF_MAX_LABEL_LEN THEN str
  ELSE [i \in 1 .. (PERF_MAX_LABEL_LEN - 1) |-> str[i]]

\* an event call of thread t has published and is about to return
EventPublished(t) ==
  pc[t] = "ret" /\ frame[t].fn = "event" /\ frame[t].ret = "published"

\* what C11 says of every event call, but for the label and the context
EventRecorded ==
  /\ [][ \A t \in Threads :
           /\ ( /\ Enters(t)
                /\ frame'[t].fn = "event"
                /\ config.enabled
                /\ frame'[t].label # NULL
                /\ log_count < log_capacity )
              => pc'[t] = "slot"
           /\ (pc[t] # "idle" /\ frame[t].fn = "event")
              => UNCHANGED << milestone_starts, milestone_active >>
       ]_vars
  /\ [] ( \A t \in Threads :
            EventPublished(t)
              => LET e == log_entries[frame[t].pre_count]
                 IN  /\ log_count = frame[t].pre_count + 1
                     /\ e.milestone = PERF_MILESTONE_USER_1
                     /\ e.duration_ms = frame[t].value )

\* C11 (as stated): with the library enabled, a label that is not NULL and room
\* in the buffer, perf_log_event_with_context publishes one record at the
\* previous log_count, with milestone USER_1, duration_ms = value, the label
\* given and the context given (empty for NULL), and leaves the milestone
\* table alone
C11_EventRecordAsGiven ==
  /\ EventRecorded
  /\ [] ( \A t \in Threads :
            EventPublished(t)
              => LET e == log_entries[frame[t].pre_count]
                 IN  /\ e.label = frame[t].label
                     /\ e.context = IF frame[t].context = NULL THEN EmptyStr
                                    ELSE frame[t].context )

\* C11 (amended): the same, the record holding the first PERF_MAX_LABEL_LEN - 1
\* characters of the label and of the context
C11_EventRecordTruncated ==
  /\ EventRecorded
  /\ [] ( \A t \in Threads :
            EventPublished(t)
              => LET e == log_entries[frame[t].pre_count]
                 IN  /\ e.label = Fitted(frame[t].label)
                     /\ e.context = IF frame[t].context = NULL THEN EmptyStr
                                    ELSE Fitted(frame[t].context) )

\* an event with a label too long for the field and one with a NULL context
\* have been published
C11_Witness ==
  \E t \in Threads :
    /\ EventPublished(t)
    /\ Len(frame[t].label) >= PERF_MAX_LABEL_LEN
    /\ frame[t].value > 0
    /\ \E i \in Published : log_entries[i].context = EmptyStr /\ written_by[i].fn = "event"

\* a perf_log_iteration call of thread t has published and is about to return
IterationPublished(t) ==
  pc[t] = "ret" /\ frame[t].fn = "iteration" /\ frame[t].ret = "published"

\* C12: perf_log_iteration(n, m) publishes one record, of kind
\* CLUSTERING_ITERATION, with iteration_number n, convergence_metric m,
\* duration 0 and label "iteration_<n>"; no step of it touches the milestone
\* table, so an end(CLUSTERING_ITERATION) that follows a start still finds the
\* kind active and publishes its record after those of the iterations called
\* before it
C12_IterationRecord ==
  /\ [][ \A t \in Threads :
           /\ ( /\ Enters(t)
                /\ frame'[t].fn = "iteration"
                /\ config.enabled
                /\ log_count < log_capacity )
              => pc'[t] = "slot"
           /\ (pc[t] # "idle" /\ frame[t].fn = "iteration")
              => UNCHANGED << milestone_starts, milestone_active >>
           /\ ( /\ Enters(t)
                /\ frame'[t].fn = "end"
                /\ frame'[t].milestone = PERF_MILESTONE_CLUSTERING_ITERATION
                /\ frame'[t].starts.n > 0
                /\ config.enabled
                /\ log_count < log_capacity )
              => pc'[t] = "slot"
       ]_vars
  /\ [] ( \A t \in Threads :
            /\ IterationPublished(t)
                 => LET e == log_entries[frame[t].pre_count]
                    IN  /\ log_count = frame[t].pre_count + 1
                        /\ e.milestone = PERF_MILESTONE_CLUSTERING_ITERATION
                        /\ e.iteration_number = frame[t].iteration
                        /\ e.convergence_metric = frame[t].value
                        /\ e.duration_ms = 0
                        /\ e.label = << "i", "t", "e", "r", "a", "t", "i", "o", "n", "_" >>
                                       \o Dec(frame[t].iteration)
            /\ ( /\ pc[t] = "ret"
                 /\ frame[t].fn = "end"
                 /\ frame[t].ret = "published" )
                 => /\ log_count = frame[t].pre_count + 1
                    /\ written_by[frame[t].pre_count].fn = "end"
                    /\ \A i \in Published :
                         ( /\ written_by[i].fn = "iteration"
                           /\ written_by[i].n < frame[t].n )
                           => i < frame[t].pre_count )

\* start(CLUSTERING_ITERATION); perf_log_iteration(-12, m); end(CLUSTERING_ITERATION)
\* has left two records, the iteration's first
C12_Witness ==
  \E t \in Threads :
    /\ pc[t] = "ret"
    /\ frame[t].fn = "end"
    /\ frame[t].ret = "published"
    /\ frame[t].n = 3
    /\ frame[t].starts.n = 1
    /\ log_count = 2
    /\ written_by[0].fn = "iteration"
    /\ written_by[0].n = 2
    /\ log_entries[0].milestone = PERF_MILESTONE_CLUSTERING_ITERATION
    /\ log_entries[0].label
         = << "i", "t", "e", "r", "a", "t", "i", "o", "n", "_", "-", "1", "2" >>
    /\ log_entries[0].duration_ms = 0
    /\ log_entries[1].milestone = PERF_MILESTONE_CLUSTERING_ITERATION
    /\ written_by[1].fn = "end"

\* C13: every record in the buffer has duration_ms >= 0, whatever start, end,
\* event, iteration and algorithm_step calls were made and with whatever
\* arguments
C13_DurationNonNegative ==
  Quiescent => \A i \in Published : log_entries[i].duration_ms >= 0

\* a perf_register_thread call of thread t is about to return an index
Registered(t) ==
  pc[t] = "ret" /\ frame[t].fn = "register" /\ frame[t].ret = "registered"

\* C14: the indices successive successful perf_register_thread calls return
\* are strictly increasing and start at 0, so that an index is not handed out
\* again after perf_unregister_thread
C14_IndicesIncrease ==
  \A t \in Threads :
    Registered(t)
      => IF handed_out = << >> THEN frame[t].idx = 0
         ELSE frame[t].idx > handed_out[Len(handed_out)]

\* the value the perf_register_thread call of thread t returns
RegisterResult(t) ==
  IF frame[t].ret = "registered" THEN frame[t].idx ELSE 0 - 1

\* C15: a perf_register_thread call made with PERF_MAX_THREADS threads
\* registered returns -1 and stores nothing, neither in a slot of thread_data
\* nor beyond them
C15_RegisterRefusedWhenFull ==
  \A t \in Threads :
    ( /\ pc[t] = "ret"
      /\ frame[t].fn = "register"
      /\ config.enabled
      /\ config.track_threads
      /\ frame[t].tmp >= PERF_MAX_THREADS )
      => /\ RegisterResult(t) = 0 - 1
         /\ ~wild_write

\* C16: whenever no call is in progress, max_threads_used is the largest value
\* active_threads has held since perf_init or the last perf_reset
C16_MaxIsPeak ==
  Quiescent => max_threads_used = peak_active

\* a perf_unregister_thread call of thread t is about to return
Unregistered(t) ==
  pc[t] = "ret" /\ frame[t].fn = "unregister" /\ frame[t].ret = "unregistered"

\* C17: when a thread has registered, timed any number of milestones and
\* unregistered, with tracking enabled and no other thread registering
\* meanwhile, active_threads is what it was before the thread registered and
\* the end_time of the thread's slot is not before its start_time
C17_CycleRestores ==
  \A t \in Threads :
    Unregistered(t)
      => /\ active_threads = frame[t].prior
         /\ frame[t].idx = tls_thread_id[t]
         /\ frame[t].idx \in DOMAIN thread_data
         /\ thread_data[frame[t].idx].thread_id = frame[t].idx
         /\ Elapsed(thread_data[frame[t].idx].start_time,
                    thread_data[frame[t].idx].end_time) >= 0

\* a thread unregisters, beside a registered one, after a start/end pair that
\* took time
C17_Witness ==
  \E t \in Threads :
    /\ Unregistered(t)
    /\ frame[t].prior = 1
    /\ frame[t].n = 4
    /\ log_count = 1
    /\ written_by[0].thr = t
    /\ log_entries[0].duration_ms > 0
    /\ thread_data[frame[t].idx].end_time # thread_data[frame[t].idx].start_time

\* C18: however many register/unregister cycles a thread has run, and be they
\* more than PERF_MAX_THREADS, perf_register_thread does not return -1: it
\* returns the index of a slot of thread_data
C18_CyclesNeverExhaust ==
  \A t \in Threads :
    (pc[t] = "ret" /\ frame[t].fn = "register")
      => /\ RegisterResult(t) # 0 - 1
         /\ RegisterResult(t) \in DOMAIN thread_data
         /\ ~wild_write

\* the register call of cycle PERF_MAX_THREADS + 1 returns
C18_Witness ==
  \E t \in Threads :
    /\ Registered(t)
    /\ Len(handed_out) >= PERF_MAX_THREADS + 1

\* C19: with the library enabled, perf_reset sets log_count to 0, clears every
\* milestone_active flag and max_threads_used, so that a summary taken next
\* has no sample of any kind; the configuration, log_capacity, the buffer, the
\* allocation counters and active_threads are as before
C19_ResetClears ==
  [][ \A t \in Threads :
        (Enters(t) /\ frame'[t].fn = "reset" /\ config.enabled)
          => /\ log_count' = 0
             /\ \A k \in Milestones : milestone_active'[k] = 0
             /\ max_threads_used' = 0
             /\ \A k \in Milestones :
                  /\ SamplesOf(k)' = {}
                  /\ perf_get_milestone_statistics(k)' = 0 - 1
             /\ UNCHANGED << config, log_capacity, log_entries, allocation_counter,
                             bytes_allocated, bytes_freed, active_threads >>
    ]_vars

\* perf_reset returns after a register, an event, a tracked allocation and a
\* start made after a tick: there was something of each kind to clear or keep
C19_Witness ==
  \E t \in Threads :
    /\ pc[t] = "ret"
    /\ frame[t].fn = "reset"
    /\ frame[t].ret = "reset"
    /\ frame[t].n = 5
    /\ log_count = 0
    /\ log_entries[0].milestone = PERF_MILESTONE_USER_1
    /\ milestone_starts[PERF_MILESTONE_CLUSTERING_START] # ZeroTime
    /\ active_threads = 1
    /\ allocation_counter = 1
    /\ bytes_allocated = 1024

\* a call of perf_init or perf_init_with_config is about to return 0
Initialized(t) ==
  pc[t] = "ret" /\ frame[t].fn \in {"init", "init_with_config"}
    /\ frame[t].ret = "initialized"

\* C20: when perf_init_with_config(c) has succeeded, whatever the state
\* before, config is c, log_count is 0, log_capacity is PERF_MAX_LOG_ENTRIES,
\* every milestone_active flag is 0 and the allocation and thread counters are
\* 0; perf_init does so with enabled = 1, granularity MEDIUM, log level INFO,
\* format HUMAN and memory, CPU and thread tracking on
C20_InitEstablishes ==
  \A t \in Threads :
    Initialized(t)
      => /\ log_count = 0
         /\ log_capacity = PERF_MAX_LOG_ENTRIES
         /\ DOMAIN log_entries = 0 .. (PERF_MAX_LOG_ENTRIES - 1)
         /\ \A k \in Milestones : milestone_active[k] = 0
         /\ allocation_counter = 0
         /\ bytes_allocated = 0
         /\ bytes_freed = 0
         /\ active_threads = 0
         /\ max_threads_used = 0
         /\ frame[t].fn = "init_with_config" => config = frame[t].config
         /\ frame[t].fn = "init"
              => /\ config.enabled
                 /\ config.granularity = PERF_GRANULARITY_MEDIUM
                 /\ config.log_level = PERF_LOG_INFO
                 /\ config.output_format = PERF_FORMAT_HUMAN
                 /\ config.track_memory
                 /\ config.track_cpu
                 /\ config.track_threads

\* perf_init_with_config succeeds with a configuration other than the default
\* one, as the fifth call of a thread that registered before it, after time
\* has passed
C20_Witness ==
  \E t \in Threads :
    /\ Initialized(t)
    /\ frame[t].fn = "init_with_config"
    /\ frame[t].n = 5
    /\ config = CustomConfig
    /\ tls_thread_id[t] = 0
    /\ clock # ZeroTime
    /\ program_start_time = clock

\* the context holds no buffer although it is enabled with a capacity: the
\* state perf_init_with_config leaves when malloc fails
InitFailed ==
  DOMAIN log_entries = {} /\ config.enabled /\ log_capacity = PERF_MAX_LOG_ENTRIES

\* C21: after an initialisation whose buffer allocation failed, and until one
\* succeeds, the start, end, event and iteration calls publish nothing and
\* store nothing through the missing buffer
C21_FailedInitUnusable ==
  InitFailed => (log_count = 0 /\ ~wild_write)

\* the name of an output format, as lines carry it
FormatName(format) ==
  CASE format = PERF_FORMAT_HUMAN -> "human"
    [] format = PERF_FORMAT_CSV -> "csv"
    [] format = PERF_FORMAT_JSON -> "json"
    [] OTHER -> "tsv"

\* line is the serialisation of entry, written to file
Serialises(line, file, entry) ==
  /\ line.file = file
  /\ line.format # "header"
  /\ line.timestamp = FmtTime(entry.timestamp)
  /\ line.milestone = perf_milestone_name(entry.milestone)
  /\ line.duration_ms = Fmt3(entry.duration_ms)
  /\ line.label = entry.label

\* out is one line for each of the records 0 .. count - 1, in that order
DrainsBuffer(out, file, entries, count) ==
  /\ Len(out) = count
  /\ \A i \in 0 .. (count - 1) :
       i \in DOMAIN entries /\ Serialises(out[i + 1], file, entries[i])

\* thread t calls perf_cleanup in this step
Cleans(t) == pc[t] = "idle" /\ pc'[t] = "ret" /\ frame'[t].fn = "cleanup"

\* C22: perf_cleanup writes every buffered record, indices 0 .. log_count - 1,
\* to the configured sink before it releases the buffer, and leaves the zeroed
\* context: disabled, log_count 0, no buffer
C22_CleanupDrains ==
  [][\A t \in Threads :
       Cleans(t) =>
         /\ DrainsBuffer(frame'[t].out, config.output_file, log_entries, log_count)
         /\ config' = ZeroConfig /\ log_count' = 0 /\ log_capacity' = 0
         /\ log_entries' = << >>]_vars

\* a perf_flush_logs call of thread t that passed its first test has finished
Flushed(t) == pc[t] = "ret" /\ frame[t].fn = "flush" /\ frame[t].ret = "flushed"

\* C23: one perf_flush_logs call on an enabled context with an output stream
\* writes one line for each record, in ascending index order, in the
\* configured format, whichever of human, CSV, JSON and TSV that is
C23_FlushInConfiguredFormat ==
  \A t \in Threads :
    Flushed(t) =>
      /\ DrainsBuffer(frame[t].out, config.output_file, log_entries, log_count)
      /\ \A k \in 1 .. Len(frame[t].out) :
           frame[t].out[k].format = FormatName(config.output_format)

\* C24: with config.flush_immediately set, every call that publishes a record
\* (end, event, iteration, algorithm_step) has run the flush, over the buffer
\* with its record in it, when it returns
C24_FlushAfterEveryRecord ==
  \A t \in Threads :
    (pc[t] = "ret" /\ frame[t].ret = "published" /\ config.flush_immediately) =>
      frame[t].out = FlushLines(config, log_entries, log_count)

\* thread t calls perf_export_csv in this step
Exports(t) == pc[t] = "idle" /\ pc'[t] = "ret" /\ frame'[t].fn = "export_csv"

\* C25: when perf_export_csv returns, the file opened or not, output_file and
\* output_format are what they were before the call, and log_count and the
\* buffered records are unchanged
C25_ExportRestores ==
  [][\A t \in Threads :
       Exports(t) =>
         /\ config'.output_file = config.output_file
         /\ config'.output_format = config.output_format
         /\ log_count' = log_count
         /\ log_entries' = log_entries]_vars

\* an export of a buffer with a record in it, under a format other than CSV and
\* the stream stderr, has written its file and is about to return
C25_Witness ==
  \E t \in Threads :
    /\ pc[t] = "ret" /\ frame[t].fn = "export_csv" /\ frame[t].ret = "exported"
    /\ Len(frame[t].out) > 1
    /\ log_count > 0
    /\ config.output_format = PERF_FORMAT_HUMAN
    /\ config.output_file = "stderr"

\* C26: whatever the state, a perf_export_csv that opened its file with N
\* records in the buffer has written N + 1 lines: the header, then one CSV
\* line for each record in buffer order
C26_ExportWritesAll ==
  \A t \in Threads :
    (pc[t] = "ret" /\ frame[t].fn = "export_csv" /\ frame[t].ret = "exported") =>
      LET out == frame[t].out
      IN  /\ Len(out) = log_count + 1
          /\ out[1] = CsvHeader(Fopen(frame[t].label))
          /\ DrainsBuffer(SubSeq(out, 2, Len(out)), Fopen(frame[t].label),
                          log_entries, log_count)
          /\ \A k \in 2 .. Len(out) : out[k].format = "csv"

\* an end() or event call of thread t given a label has published its record
LabelPublished(t) ==
  /\ pc[t] = "ret" /\ frame[t].ret = "published"
  /\ frame[t].fn \in {"end", "event"}
  /\ frame[t].label # NULL

\* C27: the label stored by end(k, label) or event(label, ...) is the first
\* min(L, PERF_MAX_LABEL_LEN - 1) characters of a label of length L, with its
\* terminator inside the field; a label shorter than the field is stored whole
C27_LabelPrefix ==
  \A t \in Threads :
    LabelPublished(t) =>
      LET given == frame[t].label
          stored == log_entries[frame[t].pre_count].label
      IN  /\ Len(stored) = Min(Len(given), PERF_MAX_LABEL_LEN - 1)
          /\ \A i \in 1 .. Len(stored) : stored[i] = given[i]
          /\ Len(given) < PERF_MAX_LABEL_LEN => stored = given

\* an end() given a label longer than the field has published, after an event
\* whose label of PERF_MAX_LABEL_LEN - 1 characters was stored whole
C27_Witness ==
  \E t \in Threads :
    /\ LabelPublished(t)
    /\ frame[t].fn = "end"
    /\ Len(frame[t].label) > PERF_MAX_LABEL_LEN
    /\ \E i \in Published :
         /\ written_by[i].fn = "event"
         /\ Len(log_entries[i].label) = PERF_MAX_LABEL_LEN - 1

\* the C string in a field of PERF_MAX_LABEL_LEN bytes ends inside the field
Terminated(str) == Len(str) < PERF_MAX_LABEL_LEN

\* C28: whichever call published it and whatever its slot held before, the
\* label and the context of every record below log_count are strings that
\* end inside their fields of PERF_MAX_LABEL_LEN bytes
C28_StringsTerminated ==
  \A i \in Published :
    Terminated(log_entries[i].label) /\ Terminated(log_entries[i].context)

\* C29: however perf_init and perf_cleanup of several threads interleave,
\* every perf_init returns 0 and no log buffer is freed twice or used after it
\* was freed
C29_LifecycleRaceSafe ==
  /\ \A t \in Threads :
       (pc[t] = "ret" /\ frame[t].fn = "init") => frame[t].ret = "initialized"
  /\ memory_fault = "none"

\* the context is the zeroed one: never initialised, or cleaned up
Zeroed ==
  /\ config = ZeroConfig /\ log_count = 0 /\ log_capacity = 0
  /\ log_entries = << >>

\* a perf_init of thread t has finished
InitReturned(t) == pc[t] = "ret" /\ frame[t].fn = "init"

\* thread t calls perf_init in this step
Inits(t) == pc[t] = "idle" /\ pc'[t] = "ret" /\ frame'[t].fn = "init"

\* the context perf_init gives, whatever it was called on
InitAlone ==
  /\ config = DefaultConfig
  /\ log_capacity = PERF_MAX_LOG_ENTRIES
  /\ log_entries = [i \in 0 .. (PERF_MAX_LOG_ENTRIES - 1) |-> host.heap]
  /\ log_count = 0
  /\ milestone_active = [k \in Milestones |-> 0]
  /\ milestone_starts = [k \in Milestones |-> ZeroTime]
  /\ thread_data = [i \in 0 .. (PERF_MAX_THREADS - 1) |-> ZeroThread]
  /\ active_threads = 0 /\ max_threads_used = 0
  /\ allocation_counter = 0 /\ bytes_allocated = 0 /\ bytes_freed = 0
  /\ program_start_time = clock
  /\ memory_fault = "none" /\ ~buffer_freed

\* C30: a perf_cleanup on a context never initialised or already cleaned up
\* frees nothing a second time and leaves the zeroed context as it is, so a
\* perf_init after cleanup; cleanup ends in the state perf_init alone gives
C30_CleanupIdempotent ==
  [][\A t \in Threads :
       /\ (Cleans(t) /\ Zeroed) =>
            /\ memory_fault' = "none" /\ ~buffer_freed'
            /\ UNCHANGED << shared, counters, thread_data >>
       /\ Inits(t) => (frame'[t].ret = "initialized" /\ InitAlone')]_vars

\* the perf_init that follows cleanup; cleanup on the context the program
\* started with has finished, as the third call
C30_Witness ==
  \E t \in Threads : InitReturned(t) /\ frame[t].n = 3 /\ frame[t].ret = "initialized"

\* thread t calls perf_track_allocation in this step and returns at its test
TrackGated(t) ==
  /\ pc[t] = "idle" /\ pc'[t] = "ret"
  /\ frame'[t].fn = "track_allocation" /\ frame'[t].ret = "gated"

\* C31: however the perf_track_allocation calls of the threads interleave,
\* once all have returned allocation_counter is the number of the calls that
\* passed the test (non-null pointer, enabled, track_memory) and
\* bytes_allocated the sum of their sizes; a call that does not pass the test
\* changes neither counter
C31_NoLostUpdate ==
  /\ [][\A t \in Threads :
          TrackGated(t) => UNCHANGED << allocation_counter, bytes_allocated >>]_vars
  /\ [](Quiescent =>
          (allocation_counter = reported.n /\ bytes_allocated = reported.bytes))

\* both threads have returned from all their calls, every call a report that
\* passed the test, with both sizes among them
C31_Witness ==
  /\ Quiescent
  /\ reported.n = 2 * MaxCalls
  /\ reported.bytes > reported.n * 1024
  /\ reported.bytes < reported.n * 4096

\* thread t calls perf_track_deallocation in this step
Deallocates(t) ==
  pc[t] = "idle" /\ pc'[t] = "ret" /\ frame'[t].fn = "track_deallocation"

\* C33: perf_track_deallocation changes nothing in the context, and
\* bytes_freed is 0 in every state, whatever allocations and deallocations
\* have been reported
C33_DeallocationNotCounted ==
  /\ [][\A t \in Threads :
          Deallocates(t) => UNCHANGED << shared, counters, thread_data >>]_vars
  /\ [](bytes_freed = 0)

\* a deallocation of a non-null pointer has been reported with tracking on,
\* after an allocation was counted
C33_Witness ==
  \E t \in Threads :
    /\ pc[t] = "ret" /\ frame[t].fn = "track_deallocation"
    /\ frame[t].ret = "ignored"
    /\ allocation_counter > 0 /\ bytes_allocated > 0

\* C32: at every instant the threads that are registered, and not yet
\* unregistered, hold thread indices that differ from one another
C32_IndicesDistinct ==
  \A t, u \in Threads :
    (t # u /\ registered[t] >= 0 /\ registered[u] >= 0) =>
      tls_thread_id[t] # tls_thread_id[u]

\* C39: whatever register and unregister calls were made, an unregister by a
\* thread that never registered among them, active_threads is not negative
\* and no perf_register_thread has returned a negative index
C39_CountsNonNegative ==
  /\ active_threads >= 0
  /\ \A k \in 1 .. Len(handed_out) : handed_out[k] >= 0

\* the buffered records of kind k
RecordsOf(k) == { i \in Published : log_entries[i].milestone = k }

RECURSIVE DurationSum(_)
DurationSum(S) ==
  IF S = {} THEN 0
  ELSE LET i == CHOOSE j \in S : TRUE
       IN  log_entries[i].duration_ms + DurationSum(S \ {i})

\* a perf_get_milestone_statistics call of thread t has finished
StatisticsReturned(t) == pc[t] = "ret" /\ frame[t].fn = "statistics"

\* when the call returned 0: the statistics st are those of the records S
StatisticsOf(st, S) ==
  /\ st.sample_count = Cardinality(S)
  /\ \E i \in S : log_entries[i].duration_ms = st.min
  /\ \E i \in S : log_entries[i].duration_ms = st.max
  /\ \A i \in S : st.min <= log_entries[i].duration_ms
                   /\ log_entries[i].duration_ms <= st.max

\* C34: perf_get_milestone_statistics(k) returns 0 exactly when a buffered
\* record has kind k, then with the number of such records as sample_count,
\* their smallest and largest duration_ms as min and max and a mean between
\* the two; otherwise it returns -1 and the statistics are zeroed
C34_StatisticsOrZeroed ==
  \A t \in Threads :
    StatisticsReturned(t) =>
      LET k == frame[t].milestone
          st == frame[t].stats
      IN  /\ frame[t].value = 0 <=> RecordsOf(k) # {}
          /\ frame[t].value = 0 =>
               /\ StatisticsOf(st, RecordsOf(k))
               /\ st.mean.n * st.min <= st.mean.sum
               /\ st.mean.sum <= st.mean.n * st.max
          /\ frame[t].value # 0 => (frame[t].value = 0 - 1 /\ st = ZeroStats)

\* C34 (amended): the same for a kind k of the enumeration when the sample
\* array is allocated, the mean being the sum of the durations divided by
\* their number; when it is not allocated the call returns -1 with zeroed
\* statistics; for a k outside the enumeration the call returns -1 and
\* leaves the statistics as they were
C34_StatisticsOfKind ==
  \A t \in Threads :
    StatisticsReturned(t) =>
      LET k == frame[t].milestone
          st == frame[t].stats
      IN  /\ frame[t].value = 0 <=>
               (RecordsOf(k) # {} /\ frame[t].ret # "no_memory")
          /\ frame[t].value = 0 =>
               /\ StatisticsOf(st, RecordsOf(k))
               /\ st.mean.sum = DurationSum(RecordsOf(k))
               /\ st.mean.n = Cardinality(RecordsOf(k))
          /\ frame[t].value # 0 =>
               /\ frame[t].value = 0 - 1
               /\ st = IF EnumGE(k, PERF_MILESTONE_COUNT) THEN frame[t].given
                       ELSE ZeroStats

\* the statistics of USER_1 have been computed over three event records of
\* two different values, into a struct that was not zeroed
C34_Witness ==
  \E t \in Threads :
    /\ StatisticsReturned(t)
    /\ frame[t].milestone = PERF_MILESTONE_USER_1
    /\ frame[t].value = 0
    /\ frame[t].given = JunkStats
    /\ frame[t].stats.sample_count = 3
    /\ frame[t].stats.min < frame[t].stats.max

\* C35: the slot a publishing call is about to write its record to has an
\* index strictly below log_capacity, whatever the interleaving of the
\* producer threads
C35_SlotBelowCapacity ==
  \A t \in Threads : pc[t] = "fill" => frame[t].idx < log_capacity

\* what a walk over the records 0 .. n - 1 writes under the configuration
RECURSIVE BufferLines(_)
BufferLines(n) ==
  IF n = 0 THEN << >>
  ELSE BufferLines(n - 1) \o EntryLines(config, log_entries[n - 1])

\* thread t calls perf_flush_logs in this step
Flushes(t) == pc[t] = "idle" /\ pc'[t] = "ret" /\ frame'[t].fn = "flush"

\* an end() of thread t has published with flush_immediately set and a stream
EndFlushed(t) ==
  /\ pc[t] = "ret" /\ frame[t].fn = "end" /\ frame[t].ret = "published"
  /\ config.flush_immediately /\ config.output_file # "NULL"

\* the records of the buffer that end() calls published
EndRecords == { i \in Published : written_by[i].fn = "end" }

\* C36: perf_flush_logs leaves log_count, the entries and the milestone table
\* as they were and writes the records from index 0 up to log_count - 1, so
\* that a second flush writes the same sequence again; with flush_immediately
\* set the end() that publishes the k-th record writes all the records
\* published so far, one line each in a format that writes lines
C36_FlushKeepsRecords ==
  /\ [][\A t \in Threads :
          Flushes(t) =>
            /\ UNCHANGED << config, log_count, log_entries, log_capacity,
                            milestone_starts, milestone_active >>
            /\ frame'[t].ret = "flushed" => frame'[t].out = BufferLines(log_count)
      ]_vars
  /\ [] (\A t \in Threads :
           EndFlushed(t) =>
             /\ frame[t].out = BufferLines(log_count)
             /\ config.output_format # PERF_FORMAT_JSON =>
                  Len(frame[t].out) = log_count)

\* the second end() has published with flush_immediately set and has written
\* two lines, the first record before its own
C36_Witness ==
  \E t \in Threads :
    /\ EndFlushed(t)
    /\ Cardinality(EndRecords) = 2
    /\ log_count = 2
    /\ Len(frame[t].out) = 2

\* C37: a record published by perf_log_event_with_context has
\* iteration_number 0 and convergence_metric 0 and a record published by
\* perf_end_milestone_labeled has an empty context, whatever the slot held
\* before the call
C37_RecordFromCallAlone ==
  \A i \in Published :
    /\ written_by[i].fn = "event" =>
         /\ log_entries[i].iteration_number = 0
         /\ log_entries[i].convergence_metric = 0
    /\ written_by[i].fn = "end" => log_entries[i].context = EmptyStr

\* thread t calls perf_start_milestone_labeled in this step
Starts(t) == pc[t] = "idle" /\ pc'[t] = "ret" /\ frame'[t].fn = "start"

\* an end() of thread t has published its record
EndPublished(t) ==
  pc[t] = "ret" /\ frame[t].fn = "end" /\ frame[t].ret = "published"

\* start(k, label) changes nothing but milestone_starts[k] and
\* milestone_active[k]
StartKeeps ==
  [][\A t \in Threads :
       Starts(t) =>
         /\ UNCHANGED << config, log_entries, log_count, log_capacity,
                         active_threads, max_threads_used, counters, registry >>
         /\ \A j \in Milestones \ {frame'[t].milestone} :
              /\ milestone_starts'[j] = milestone_starts[j]
              /\ milestone_active'[j] = milestone_active[j]
    ]_vars

\* C38: the label of a milestone record is the label passed to end(k, label),
\* whatever label start(k, label) was passed, and start changes nothing but
\* milestone_starts[k] and milestone_active[k]
C38_EndLabelStored ==
  /\ StartKeeps
  /\ [] (\A t \in Threads :
           EndPublished(t) =>
             log_entries[frame[t].pre_count].label = frame[t].label)

\* C38 (amended): the label of a milestone record is the first
\* PERF_MAX_LABEL_LEN - 1 characters of the label passed to end(k, label),
\* the empty string when that is NULL, whatever label start(k, label) was
\* passed, and start changes nothing but milestone_starts[k] and
\* milestone_active[k]
C38_EndLabelPrefixStored ==
  /\ StartKeeps
  /\ [] (\A t \in Threads :
           EndPublished(t) =>
             LET given == frame[t].label
                 stored == log_entries[frame[t].pre_count].label
             IN  IF given = NULL THEN stored = EmptyStr
                 ELSE /\ Len(stored) = Min(Len(given), PERF_MAX_LABEL_LEN - 1)
                      /\ \A i \in 1 .. Len(stored) : stored[i] = given[i])

\* an end() has published a record under its own label of one character
\* after the start() of the milestone was given a longer label
C38_Witness ==
  \E t \in Threads :
    /\ EndPublished(t)
    /\ frame[t].label = LabelOf(1)
    /\ frame[t].starts.n = 1
    /\ frame[t].starts.label = LabelOf(PERF_MAX_LABEL_LEN - 1)
    /\ log_entries[frame[t].pre_count].label = LabelOf(1)

====
